---- MODULE Spec2Model ----
(***************************************************************************)
(* Verification model of four parts of GLib:                               *)
(*   - the kdbus transport          (gio/gkdbus.c)                         *)
(*   - the kdbus event source       (gio/gkdbus.c, GKdbusSource)           *)
(*   - the futex GMutex and GCond   (glib/gmutex-futex.c)                  *)
(*   - the default GProperty lock   (gobject/gproperty.c)                  *)
(* Each part has its own next-state relation over the shared variables;    *)
(* the variables of the other parts keep their initial values.             *)
(***************************************************************************)
EXTENDS Integers, Sequences, FiniteSets, TLC

\* ------------------------------------------------------------------ bounds
MaxEINTR == 1
MaxItems == 2

\* --------------------------------------------------------- program constants
NoFd == -1
KDBUS_PART_HEADER_SIZE == 16
KDBUS_VEC_SIZE == 16
KDBUS_MSG_HEADER_SIZE == 64

VARIABLES
  \* struct _GKdbusPrivate
  fd, closed, registered, peer_id, bloom_size, buffer_ptr, timeout, timed_out,
  \* the process: TRUE once g_error() has terminated it
  aborted,
  \* the kernel: TRUE once the connection of descriptor fd has said HELLO
  hello,
  \* what the most recent transport call did: its kernel calls and its result
  last

VARIABLES
  \* the GKdbusSource of each watch, with the state the main loop keeps for it
  source,
  \* g_get_monotonic_time(), in microseconds, and the ticks seen so far
  now, bigTicks, smallTicks,
  \* whether the GCancellable has been cancelled
  cancelled,
  \* the GObject reference count of the endpoint, whether its creator still
  \* holds the reference of g_object_new(), whether g_kdbus_finalize() has
  \* run, and the pollfds made on the GCancellable and not yet released
  ref_count, owner_ref, finalized, cancel_fds

VARIABLES
  \* GMutex.i[0] and GCond.i[0]
  mutex, cond,
  \* per thread: where it is, the counter value g_cond_wait() sampled, whether
  \* it is inside g_cond_wait(), and where g_cond_signal() was called from
  pc, sampled, inwait, sigret,
  \* the g_cond_signal()/g_cond_broadcast() calls made so far
  nsignals,
  \* the waiters that signals issued so far still have to unblock
  owed

VARIABLES
  \* the qdata of the object under the property's quark (a lock word or NULL)
  qdata,
  \* the heap: the lock words that are allocated, and the lock bit of each
  allocated, lockbit,
  \* per thread: where it is, and its local bit_lock_p
  ppc, bit_lock_p,
  \* TRUE once a thread has locked or unlocked a freed lock word
  use_after_free

VARIABLES
  \* one call of g_kdbus_decode_msg(): the message at the offset in the pool,
  \* the number of bytes the caller's data buffer has room for, and what the
  \* call did
  pool_msg, data_size, decoded

VARIABLES
  \* the futex GRecMutex: which word of the union's pointer i[0] shares its
  \* storage with, and the union itself, seen as the pointer p
  layout, rec_mutex,
  \* per thread: where it is, its locals (value / prev / tid, and the i[0] it
  \* has loaded), the call it is in and what g_rec_mutex_trylock() returned
  rpc, rvalue, rreg, rcall, rret,
  \* per thread: the locks it has acquired and not yet asked to unlock
  rec_held

VARIABLES
  \* one GPrivate: key->p; the keys pthread_key_create() has handed out that
  \* are not deleted, and the value of every thread under every key
  key_p, keys, tsd,
  \* per thread: where it is, its local impl, the call it is in, what
  \* g_private_get() returned and what its last g_private_set() stored
  gpc, gimpl, gcall, gret, gstored,
  \* TRUE once g_mutex_abort() has ended the process
  gaborted

VARIABLES
  \* the item walk of g_kdbus_decode_msg(), one iteration a step: the size
  \* field found at each 8-byte position around the items, the end of the
  \* message, the position of the cursor (both counted from the first item),
  \* how the walk stands and the iterations it has made
  wmem, wsize, cursor, wstate, witers

VARIABLES
  \* a GProperty and the instance it is installed on: the property, the fields
  \* of the instance's private structure, what the last call did and returned,
  \* and the calls made
  gprop, priv, fcall, fcalls

VARIABLES
  \* a GSubprocess and what the last call on it did
  sub, slast,
  \* a call of g_subprocess_run_sync_get_output_bytes(): its position and its
  \* GSubprocessRunSyncGetOutputData, the splice of each output stream, and
  \* the child process
  run, splices, child

kvars == <<fd, closed, registered, peer_id, bloom_size, buffer_ptr, timeout,
           timed_out, aborted, hello, last>>
lvars == <<ref_count, owner_ref, finalized, cancel_fds>>
svars == <<source, now, bigTicks, smallTicks, cancelled, lvars>>
mvars == <<mutex, cond, pc, sampled, inwait, sigret, nsignals, owed>>
pvars == <<qdata, allocated, lockbit, ppc, bit_lock_p, use_after_free>>
dvars == <<pool_msg, data_size, decoded>>
rvars == <<layout, rec_mutex, rpc, rvalue, rreg, rcall, rret, rec_held>>
gvars == <<key_p, keys, tsd, gpc, gimpl, gcall, gret, gstored, gaborted>>
wvars == <<wmem, wsize, cursor, wstate, witers>>
fvars == <<gprop, priv, fcall, fcalls>>
bvars == <<sub, slast>>
ovars == <<run, splices, child>>
uvars == <<wvars, fvars, bvars, ovars>>
tvars == <<rvars, gvars, uvars>>
\* the groups of the transport, its watches, the locks and GPrivate
basevars == <<kvars, svars, mvars, pvars, dvars, rvars, gvars>>
vars == <<kvars, svars, mvars, pvars, dvars, tvars>>

\* ------------------------------------------------------------ integer widths
\* An unsigned 64-bit value is a tuple of four 16-bit limbs, most significant
\* first; values known to be small (sizes, offsets, times) are plain integers.
Limb == 256 * 256
U64(n) == <<0, 0, n \div Limb, n % Limb>>
U64Max == <<Limb - 1, Limb - 1, Limb - 1, Limb - 1>>

\* a guint64 stored into a gint: the low 32 bits, read as two's complement
U64ToGint(x) ==
  IF x[3] >= Limb \div 2 THEN (x[3] - Limb) * Limb + x[4] ELSE x[3] * Limb + x[4]

\* a gint converted to a guint64: sign extension
GintToU64(i) ==
  IF i < 0 THEN <<Limb - 1, Limb - 1, (i \div Limb) + Limb, i % Limb>>
  ELSE <<0, 0, i \div Limb, i % Limb>>

\* the largest int
IntMax == ((Limb \div 2) - 1) * Limb + (Limb - 1)

\* ret_size += b for an int ret_size and 0 <= b <= IntMax: two's complement
\* wrap-around
IntAdd(a, b) ==
  IF a > IntMax - b THEN (a - IntMax - 1) + (b - IntMax - 1) ELSE a + b

\* KDBUS_ALIGN8 / KDBUS_ITEM_SIZE on sizes
KDBUS_ALIGN8(l) == ((l + 7) \div 8) * 8

KDBUS_ITEM_SIZE(s) == KDBUS_ALIGN8(s + KDBUS_PART_HEADER_SIZE)

\* --------------------------------------------------------------- the kernel
\* One kernel control call as the transport sees it.
\* off is the offset MSG_RECV wrote or MSG_RELEASE was given; id is the id a
\* successful HELLO wrote into struct kdbus_cmd_hello
KCall(cmd, f, res, off) ==
  [cmd |-> cmd, fd |-> f, res |-> res, off |-> off, id |-> <<0, 0, 0, 0>>]
HelloCall(f, res, id) == [KCall("HELLO", f, res, 0) EXCEPT !.id = id]

\* A retried call: k failures with EINTR, then the final result.
RetriedCalls(cmd, f, k, final, off) ==
  [i \in 1..(k + 1) |-> KCall(cmd, f, IF i <= k THEN "EINTR" ELSE final, off)]

\* The values an input is drawn from: all of choices where it matters, else
\* one of them.
Only(matters, choices) == IF matters THEN choices ELSE {CHOOSE c \in choices : TRUE}

\* The results ioctl() can give for a command on descriptor f; an invalid
\* descriptor always gives EBADF.
IoctlResults(f, onValid) == IF f = NoFd THEN {"EBADF"} ELSE onValid

\* The results of a message command: the kernel refuses it on a connection
\* that has not said HELLO.
ConnResults(f, connected, onValid) ==
  IF f = NoFd THEN {"EBADF"} ELSE IF ~connected THEN {"ENOTCONN"} ELSE onValid

KernelIds == {U64(42), <<0, 1, 0, 7>>}
KernelBloomSizes == {8, 13}
KernelOffsets == {0, 128}
FdValues == {3}

\* -------------------------------------------------- messages in the pool
PayloadItem(vsize, voff) ==
  [type |-> "PAYLOAD_OFF",
   size |-> KDBUS_PART_HEADER_SIZE + KDBUS_VEC_SIZE, vsize |-> vsize, voff |-> voff]

PlainItem(type, size) == [type |-> type, size |-> size, vsize |-> 0, voff |-> 0]

ItemSet ==
  { PayloadItem(2, 64), PayloadItem(1, 80),
    PlainItem("REPLY_TIMEOUT", KDBUS_PART_HEADER_SIZE + 8),
    PlainItem("REPLY_DEAD", KDBUS_PART_HEADER_SIZE + 8),
    PlainItem("OTHER", KDBUS_PART_HEADER_SIZE + 1),
    PlainItem("PAYLOAD_OFF", KDBUS_PART_HEADER_SIZE) }

RECURSIVE SumAligned(_)
SumAligned(items) ==
  IF items = <<>> THEN 0
  ELSE KDBUS_ALIGN8(Head(items).size) + SumAligned(Tail(items))

\* a message as the kernel lays it out: the items follow the header, each at
\* the aligned end of the one before, and size is the end of the last one
KMsg(items, cookie) ==
  [size |-> KDBUS_MSG_HEADER_SIZE + SumAligned(items),
   cookie_reply |-> cookie, items |-> items]

MsgsOver(items) ==
  { KMsg(s, 99) : s \in UNION { [1..n -> items] : n \in 1..MaxItems } }

\* the messages g_kdbus_receive() is given: payload, a notice, a malformed item
PoolMsgs ==
  MsgsOver({ PayloadItem(1, 80),
             PlainItem("REPLY_DEAD", KDBUS_PART_HEADER_SIZE + 8),
             PlainItem("PAYLOAD_OFF", KDBUS_PART_HEADER_SIZE) })

\* --------------------------------------------------------- g_kdbus_decode_msg
\* The KDBUS_PART_FOREACH walk from item i at byte position pos, with the
\* bytes copied so far (each named by its pool offset) and the running total.
\* The result also tells the last item the walk looked at and the conditions
\* handed to the caller next to the bytes.
RECURSIVE DecodeWalk(_, _, _, _, _)
DecodeWalk(msg, i, pos, out, total) ==
  IF ~(pos < msg.size) \/ i > Len(msg.items)
  THEN [fatal |-> FALSE, ret_size |-> total, out |-> out, last_item |-> i - 1,
        notices |-> <<>>]
  ELSE LET item == msg.items[i] IN
       IF item.size <= KDBUS_PART_HEADER_SIZE
       THEN [fatal |-> TRUE, ret_size |-> total, out |-> out, last_item |-> i,
             notices |-> <<>>]
       ELSE IF item.type = "PAYLOAD_OFF"
            THEN DecodeWalk(msg, i + 1, pos + KDBUS_ALIGN8(item.size),
                            out \o [k \in 1..item.vsize |-> item.voff + k - 1],
                            IntAdd(total, item.vsize))
            \* KDBUS_MSG_REPLY_TIMEOUT and KDBUS_MSG_REPLY_DEAD only print: the
            \* code that would build the local error message is commented
            \* out, so no notice is ever handed to the caller; the switch has
            \* no case for any other type
            ELSE DecodeWalk(msg, i + 1, pos + KDBUS_ALIGN8(item.size), out, total)

g_kdbus_decode_msg(msg) == DecodeWalk(msg, 1, KDBUS_MSG_HEADER_SIZE, <<>>, 0)

\* One call of g_kdbus_decode_msg() on its own.  memcpy() is given no limit,
\* so the bytes beyond the room of data are written behind the buffer, which
\* is undefined: the call either goes on and returns, or the process dies.
Cookies == {7, 99}
DataSizes == {1, 4}
DecodeMsgs ==
  { KMsg(s, c) : s \in UNION { [1..n -> ItemSet] : n \in 1..MaxItems }, c \in Cookies }
NotDecoded == [outcome |-> "none"]
OverflowOutcomes == {"returned", "crashed"}

DecodeInit == pool_msg = KMsg(<<>>, 0) /\ data_size = 0 /\ decoded = NotDecoded

DecodeInputs ==
  pool_msg \in DecodeMsgs /\ data_size \in DataSizes /\ decoded = NotDecoded

Decode ==
  /\ decoded = NotDecoded
  /\ pool_msg.items # <<>>
  /\ LET r == g_kdbus_decode_msg(pool_msg) IN
     \E o \in Only(Len(r.out) > data_size, OverflowOutcomes) :
       decoded' = [outcome |-> IF Len(r.out) > data_size /\ o = "crashed" THEN "crashed"
                              ELSE IF r.fatal THEN "g_error" ELSE "returned",
                   ret_size |-> r.ret_size, out |-> r.out, last_item |-> r.last_item,
                   notices |-> r.notices]
  /\ UNCHANGED <<pool_msg, data_size>>
  /\ UNCHANGED <<kvars, svars, mvars, pvars, tvars>>

\* --------------------------------------------------------------- g_kdbus_init
NoKMsg ==
  [size |-> 0, dst_id |-> U64(0), src_id |-> U64(0), cookie |-> 0, items |-> <<>>,
   destination |-> [null |-> TRUE, s |-> <<>>]]

Last(op, returned, ret, calls, out, kmsg) ==
  [op |-> op, returned |-> returned, ret |-> ret, calls |-> calls, out |-> out,
   kmsg |-> kmsg]

g_kdbus_init ==
  /\ fd = NoFd
  /\ peer_id = -1
  /\ bloom_size = 0
  /\ buffer_ptr = "NULL"
  /\ closed = FALSE
  /\ registered = FALSE
  /\ timeout = 0
  /\ timed_out = FALSE
  /\ aborted = FALSE
  /\ hello = FALSE
  /\ last = Last("init", TRUE, 0, <<>>, <<>>, NoKMsg)

\* --------------------------------------------------------------- g_kdbus_open
\* open(address, O_RDWR|O_CLOEXEC|O_NONBLOCK) gives a descriptor or -1; on -1
\* g_error() terminates the process before closed is touched.
g_kdbus_open ==
  /\ ~aborted
  /\ \E newfd \in FdValues \cup {NoFd} :
       /\ fd' = newfd
       /\ hello' = FALSE
       /\ IF newfd < 0
          THEN /\ aborted' = TRUE
               /\ closed' = closed
               /\ last' = Last("open", FALSE, 0, <<>>, <<>>, NoKMsg)
          ELSE /\ aborted' = FALSE
               /\ closed' = FALSE
               /\ last' = Last("open", TRUE, 1, <<>>, <<>>, NoKMsg)
  /\ UNCHANGED <<registered, peer_id, bloom_size, buffer_ptr, timeout, timed_out>>
  /\ UNCHANGED <<svars, mvars, pvars, dvars, tvars>>

\* close(kdbus->priv->fd): EBADF, which g_kdbus_close() ignores, when the
\* endpoint has no descriptor
CloseCall == <<KCall("close", fd, IF fd = NoFd THEN "EBADF" ELSE "OK", 0)>>

\* g_kdbus_close() that refuses an endpoint which is already closed
g_kdbus_close_refuses_closed ==
  /\ ~aborted
  /\ closed' = TRUE
  /\ fd' = NoFd
  /\ hello' = FALSE
  /\ registered' = FALSE
  /\ last' = Last("close", ~closed, IF closed THEN 0 ELSE 1, CloseCall, <<>>, NoKMsg)
  /\ UNCHANGED <<peer_id, bloom_size, buffer_ptr, timeout, timed_out, aborted>>
  /\ UNCHANGED <<svars, mvars, pvars, dvars, tvars>>

\* g_kdbus_close() without the reset of registered
g_kdbus_close_keeps_registered ==
  /\ ~aborted
  /\ closed' = TRUE
  /\ fd' = NoFd
  /\ hello' = FALSE
  /\ last' = Last("close", TRUE, 1, CloseCall, <<>>, NoKMsg)
  /\ UNCHANGED <<registered, peer_id, bloom_size, buffer_ptr, timeout, timed_out,
                 aborted>>
  /\ UNCHANGED <<svars, mvars, pvars, dvars, tvars>>

\* -------------------------------------------------------------- g_kdbus_close
g_kdbus_close ==
  /\ ~aborted
  /\ closed' = TRUE
  /\ fd' = NoFd
  /\ hello' = FALSE
  /\ registered' = FALSE
  /\ last' = Last("close", TRUE, 1, CloseCall, <<>>, NoKMsg)
  /\ UNCHANGED <<peer_id, bloom_size, buffer_ptr, timeout, timed_out, aborted>>
  /\ UNCHANGED <<svars, mvars, pvars, dvars, tvars>>

\* ---------------------------------------------------------- g_kdbus_is_closed
g_kdbus_is_closed == closed

\* gkdbusconnection.c: g_kdbus_connection_is_connected()
g_kdbus_connection_is_connected == ~g_kdbus_is_closed

\* ----------------------------------------------------------- g_kdbus_register
HelloResults == {"OK", "EINTR", "ENOMEM"}
MmapResults == {"mapped", "MAP_FAILED"}

\* The results of HELLO: a descriptor makes one connection, so the kernel
\* refuses a second HELLO on a connection that has already said it.
HelloCallResults ==
  IF fd = NoFd THEN {"EBADF"} ELSE IF hello THEN {"EALREADY"} ELSE HelloResults

\* The effect of g_kdbus_register() when HELLO gives res (and, on success, the
\* kernel reports id and bloom and mmap() gives map): the fields it leaves and
\* whether it returned TRUE, returned FALSE or ended in g_error().
RegisterEffect(res, id, bloom, map) ==
  IF res # "OK"
  THEN [registered |-> registered, peer_id |-> peer_id, bloom_size |-> bloom_size,
        buffer_ptr |-> buffer_ptr, fatal |-> TRUE, hello |-> hello,
        calls |-> <<KCall("HELLO", fd, res, 0)>>]
  ELSE [registered |-> TRUE, peer_id |-> U64ToGint(id), bloom_size |-> bloom,
        buffer_ptr |-> map, fatal |-> (map = "MAP_FAILED"), hello |-> TRUE,
        calls |-> <<HelloCall(fd, res, id)>>]

g_kdbus_register ==
  /\ ~aborted
  /\ \E res \in HelloCallResults :
     \E id \in Only(res = "OK", KernelIds), bloom \in Only(res = "OK", KernelBloomSizes),
        map \in Only(res = "OK", MmapResults) :
       LET e == RegisterEffect(res, id, bloom, map) IN
       /\ registered' = e.registered
       /\ peer_id' = e.peer_id
       /\ bloom_size' = e.bloom_size
       /\ buffer_ptr' = e.buffer_ptr
       /\ hello' = e.hello
       /\ aborted' = e.fatal
       /\ last' = Last("register", ~e.fatal, IF e.fatal THEN 0 ELSE 1, e.calls,
                       <<>>, NoKMsg)
  /\ UNCHANGED <<fd, closed, timeout, timed_out>>
  /\ UNCHANGED <<svars, mvars, pvars, dvars, tvars>>

\* ------------------------------------------------------------ g_kdbus_receive
RecvResults == {"OK", "EAGAIN", "EFAULT"}
ReleaseResults == {"OK", "EFAULT"}

\* The effect of g_kdbus_receive() on an endpoint that is not closed: MSG_RECV
\* fails k times with EINTR and then gives res (on success the offset off, at
\* which the pool holds msg); MSG_RELEASE fails k2 times with EINTR and then
\* gives rel.
ReceiveEffect(k, res, off, msg, k2, rel) ==
  LET recv == RetriedCalls("MSG_RECV", fd, k, res, IF res = "OK" THEN off ELSE 0)
      dec  == g_kdbus_decode_msg(msg)
      free == RetriedCalls("MSG_RELEASE", fd, k2, rel, off)
  IN  IF res = "EAGAIN" THEN Last("receive", TRUE, 1, recv, <<>>, NoKMsg)
      ELSE IF res # "OK" THEN Last("receive", FALSE, 0, recv, <<>>, NoKMsg)
      ELSE IF dec.fatal THEN Last("receive", FALSE, 0, recv, dec.out, NoKMsg)
      ELSE IF rel # "OK" THEN Last("receive", TRUE, -1, recv \o free, dec.out, NoKMsg)
      ELSE Last("receive", TRUE, dec.ret_size, recv \o free, dec.out, NoKMsg)

g_kdbus_receive ==
  /\ ~aborted
  /\ IF closed
     THEN /\ last' = Last("receive", TRUE, 1, <<>>, <<>>, NoKMsg)
          /\ aborted' = FALSE
     ELSE \E k \in 0..MaxEINTR, res \in ConnResults(fd, hello, RecvResults) :
          \E off \in Only(res = "OK", KernelOffsets),
             msg \in Only(res = "OK", PoolMsgs) :
          \E k2 \in Only(res = "OK" /\ ~g_kdbus_decode_msg(msg).fatal, 0..MaxEINTR),
             rel \in Only(res = "OK" /\ ~g_kdbus_decode_msg(msg).fatal,
                           ConnResults(fd, hello, ReleaseResults)) :
            LET e == ReceiveEffect(k, res, off, msg, k2, rel) IN
            /\ last' = e
            /\ aborted' = ~e.returned
  /\ UNCHANGED <<fd, closed, registered, peer_id, bloom_size, buffer_ptr, timeout,
                 timed_out, hello>>
  /\ UNCHANGED <<svars, mvars, pvars, dvars, tvars>>

\* ------------------------------------------------------- g_kdbus_send_message
\* A C string is the sequence of its characters; NULL is NullStr.
NullStr == [null |-> TRUE, s |-> <<>>]
Str(chars) == [null |-> FALSE, s |-> chars]
strlen(str) == Len(str.s)
\* str[i] for 0 <= i <= strlen(str); the terminator is "NUL"
CharAt(str, i) == IF i < Len(str.s) THEN str.s[i + 1] ELSE "NUL"

DigitChars == <<"0", "1", "2", "3", "4", "5", "6", "7", "8", "9">>
IsDigit(c) == \E d \in 1..10 : DigitChars[d] = c
DigitVal(c) == (CHOOSE d \in 1..10 : DigitChars[d] = c) - 1

\* x * 10 + d on unsigned 64-bit limbs; over is the carry out of bit 63
U64MulAdd10(x, d) ==
  LET t4 == x[4] * 10 + d
      t3 == x[3] * 10 + (t4 \div Limb)
      t2 == x[2] * 10 + (t3 \div Limb)
      t1 == x[1] * 10 + (t2 \div Limb)
  IN  [v |-> <<t1 % Limb, t2 % Limb, t3 % Limb, t4 % Limb>>, over |-> t1 \div Limb # 0]

\* 0 - x on unsigned 64-bit limbs
U64Neg(x) ==
  IF x = U64(0) THEN x
  ELSE LET n4 == (Limb - 1 - x[4]) + 1
           n3 == (Limb - 1 - x[3]) + (n4 \div Limb)
           n2 == (Limb - 1 - x[2]) + (n3 \div Limb)
           n1 == (Limb - 1 - x[1]) + (n2 \div Limb)
       IN  <<n1 % Limb, n2 % Limb, n3 % Limb, n4 % Limb>>

\* the digits of strtoull(): accumulate from position i, saturate on overflow
RECURSIVE StrtoullDigits(_, _, _, _)
StrtoullDigits(str, i, acc, over) ==
  IF ~IsDigit(CharAt(str, i)) THEN [v |-> acc, over |-> over]
  ELSE LET n == U64MulAdd10(acc, DigitVal(CharAt(str, i))) IN
       StrtoullDigits(str, i + 1, n.v, over \/ n.over)

RECURSIVE SkipSpaces(_, _)
SkipSpaces(str, i) == IF CharAt(str, i) = " " THEN SkipSpaces(str, i + 1) ELSE i

\* strtoull(&str[from], NULL, 10): white space, an optional sign, digits
strtoull(str, from) ==
  LET i    == SkipSpaces(str, from)
      sign == CharAt(str, i)
      j    == IF sign \in {"+", "-"} THEN i + 1 ELSE i
      r    == StrtoullDigits(str, j, U64(0), FALSE)
  IN  IF r.over THEN U64Max ELSE IF sign = "-" THEN U64Neg(r.v) ELSE r.v

KDBUS_DST_ID_WELL_KNOWN_NAME == U64(0)
KDBUS_DST_ID_BROADCAST == U64Max

\* the destination id and the name left after lines 810-818
SendDstId(dest) ==
  IF dest.null THEN KDBUS_DST_ID_BROADCAST
  ELSE IF CharAt(dest, 0) = ":" /\ CharAt(dest, 1) = "1" /\ CharAt(dest, 2) = "."
       THEN strtoull(dest, 3)
       ELSE KDBUS_DST_ID_WELL_KNOWN_NAME

SendName(dest) ==
  IF dest.null THEN NullStr
  ELSE IF CharAt(dest, 0) = ":" /\ CharAt(dest, 1) = "1" /\ CharAt(dest, 2) = "."
       THEN NullStr
       ELSE dest

\* the items of lines 851-867 with the test for the broadcast id left out: a
\* bloom item whenever there is no name
SendItemsBloomWithoutName(dest, bloom) ==
  LET name == SendName(dest)
      vec  == [type |-> "PAYLOAD_VEC", pos |-> KDBUS_MSG_HEADER_SIZE,
               size |-> KDBUS_PART_HEADER_SIZE + KDBUS_VEC_SIZE]
      next == KDBUS_MSG_HEADER_SIZE + KDBUS_ALIGN8(vec.size)
  IN  IF ~name.null
      THEN <<vec, [type |-> "DST_NAME", pos |-> next,
                   size |-> KDBUS_PART_HEADER_SIZE + strlen(name) + 1]>>
      ELSE <<vec, [type |-> "BLOOM", pos |-> next,
                   size |-> KDBUS_PART_HEADER_SIZE + bloom]>>

\* the items written after the header (lines 851-867), each at its position
SendItems(dest, bloom) ==
  LET name == SendName(dest)
      vec  == [type |-> "PAYLOAD_VEC", pos |-> KDBUS_MSG_HEADER_SIZE,
               size |-> KDBUS_PART_HEADER_SIZE + KDBUS_VEC_SIZE]
      next == KDBUS_MSG_HEADER_SIZE + KDBUS_ALIGN8(vec.size)
  IN  IF ~name.null
      THEN <<vec, [type |-> "DST_NAME", pos |-> next,
                   size |-> KDBUS_PART_HEADER_SIZE + strlen(name) + 1]>>
      ELSE IF SendDstId(dest) = KDBUS_DST_ID_BROADCAST
           THEN <<vec, [type |-> "BLOOM", pos |-> next,
                        size |-> KDBUS_PART_HEADER_SIZE + bloom]>>
           ELSE <<vec>>

\* kmsg_size (lines 820-826)
SendSize(dest, bloom) ==
  LET name == SendName(dest)
      base == KDBUS_MSG_HEADER_SIZE + KDBUS_ITEM_SIZE(KDBUS_VEC_SIZE)
  IN  IF ~name.null THEN base + KDBUS_ITEM_SIZE(strlen(name) + 1)
      ELSE IF SendDstId(dest) = KDBUS_DST_ID_BROADCAST
           THEN base + KDBUS_PART_HEADER_SIZE + bloom
           ELSE base

\* the command buffer of lines 828-867, with the destination of the D-Bus
\* message it was built for
BuildKmsg(dest, serial, src, bloom) ==
  [size |-> SendSize(dest, bloom), destination |-> dest,
   dst_id |-> IF ~SendName(dest).null THEN U64(0) ELSE SendDstId(dest),
   src_id |-> GintToU64(src), cookie |-> serial, items |-> SendItems(dest, bloom)]

SendResults == {"OK", "ENXIO"}
\* no destination, two well-known names, the unique names :1.7 and :1.0, and
\* the unique name of the largest 64-bit id, :1.18446744073709551615
MaxIdName ==
  Str(<<":", "1", ".", "1", "8", "4", "4", "6", "7", "4", "4", "0", "7", "3", "7",
        "0", "9", "5", "5", "1", "6", "1", "5">>)
Dests ==
  {NullStr, Str(<<"o", "r", "g">>), Str(<<"o", "r", "g", ".", "a", ".", "b">>),
   Str(<<":", "1", ".", "7">>), Str(<<":", "1", ".", "0">>), MaxIdName}
Members == {"Hello", "AddMatch"}
BlobSizes == {5}
Serials == {1}

\* g_kdbus_send_message() without the lazy registration of lines 791-808
g_kdbus_send_message_without_register ==
  /\ ~aborted
  /\ \E dest \in Dests, blob_size \in BlobSizes, serial \in Serials,
        k \in 0..MaxEINTR, res \in ConnResults(fd, hello, SendResults) :
       LET kmsg == BuildKmsg(dest, serial, peer_id, bloom_size)
           send == RetriedCalls("MSG_SEND", fd, k, res, 0)
       IN
       IF res # "OK"
       THEN /\ aborted' = TRUE
            /\ last' = Last("send", FALSE, 0, send, <<>>, kmsg)
       ELSE /\ aborted' = FALSE
            /\ last' = Last("send", TRUE, blob_size, send, <<>>, kmsg)
  /\ UNCHANGED <<fd, closed, registered, peer_id, bloom_size, buffer_ptr, timeout,
                 timed_out, hello>>
  /\ UNCHANGED <<svars, mvars, pvars, dvars, tvars>>

g_kdbus_send_message ==
  /\ ~aborted
  /\ \E member \in Members, dest \in Dests, blob_size \in BlobSizes,
        serial \in Serials,
        hres \in Only(~registered, HelloCallResults) :
     \E id \in Only(~registered /\ hres = "OK", KernelIds),
        bloom \in Only(~registered /\ hres = "OK", KernelBloomSizes),
        map \in Only(~registered /\ hres = "OK", MmapResults),
        k \in 0..MaxEINTR,
        res \in ConnResults(fd, hello \/ (~registered /\ hres = "OK"), SendResults) :
       LET reg  == IF registered
                   THEN [registered |-> registered, peer_id |-> peer_id,
                         bloom_size |-> bloom_size, buffer_ptr |-> buffer_ptr,
                         fatal |-> FALSE, hello |-> hello, calls |-> <<>>]
                   ELSE RegisterEffect(hres, id, bloom, map)
           kmsg == BuildKmsg(dest, serial, reg.peer_id, reg.bloom_size)
           send == RetriedCalls("MSG_SEND", fd, k, res, 0)
       IN
       /\ registered' = reg.registered
       /\ peer_id' = reg.peer_id
       /\ bloom_size' = reg.bloom_size
       /\ buffer_ptr' = reg.buffer_ptr
       /\ hello' = reg.hello
       /\ IF reg.fatal
          THEN /\ aborted' = TRUE
               /\ last' = Last("send", FALSE, 0, reg.calls, <<>>, NoKMsg)
          ELSE IF ~registered /\ member = "Hello"
          THEN /\ aborted' = FALSE
               /\ last' = Last("send", TRUE, blob_size, reg.calls, <<>>, NoKMsg)
          ELSE IF res # "OK"
          THEN /\ aborted' = TRUE
               /\ last' = Last("send", FALSE, 0, reg.calls \o send, <<>>, kmsg)
          ELSE /\ aborted' = FALSE
               /\ last' = Last("send", TRUE, blob_size, reg.calls \o send, <<>>, kmsg)
  /\ UNCHANGED <<fd, closed, timeout, timed_out>>
  /\ UNCHANGED <<svars, mvars, pvars, dvars, tvars>>

\* ------------------------------------------------------- g_kdbus_set_property
TimeoutValues == {0, 1}

g_kdbus_set_property ==
  /\ ~aborted
  /\ \E v \in TimeoutValues : timeout' = v
  /\ UNCHANGED <<fd, closed, registered, peer_id, bloom_size, buffer_ptr,
                 timed_out, aborted, hello, last>>
  /\ UNCHANGED <<svars, mvars, pvars, dvars, tvars>>

\* ============================================================== GKdbusSource
MaxSeconds == 2
MaxSmallTicks == 1
USEC_PER_SEC == 1000000

Watches == {1, 2}
OneWatch == {1}
IOIn == "IN"
IOOut == "OUT"
ConditionChoices == {{IOIn}, {IOIn, IOOut}}
Cancellables == {"NULL", "cancellable"}
\* the steps the monotonic clock is seen to advance by
SmallTicks == {999, 1000}

NoTimeout == [set |-> FALSE, v |-> 0]
NoSource ==
  [state |-> "none", condition |-> {}, cancellable |-> "NULL", fd |-> NoFd,
   revents |-> {}, timeout_time |-> 0,
   \* what the last prepare()/check() wrote to *timeout and why it said TRUE
   timeout |-> NoTimeout, why |-> "none",
   \* what poll() last reported, and what the last dispatch gave the callback
   reported |-> {}, dispatched |-> FALSE, cb_condition |-> {}, cb_why |-> "none"]

SourceInit ==
  /\ source = [w \in Watches |-> NoSource]
  /\ now = 1
  /\ bigTicks = 0
  /\ smallTicks = 0
  /\ cancelled = FALSE
  /\ ref_count = 1
  /\ owner_ref = TRUE
  /\ finalized = FALSE
  /\ cancel_fds = 0

\* C integer division: truncation toward zero
CDiv(a, b) == IF a >= 0 THEN a \div b ELSE 0 - ((0 - a) \div b)

\* kdbus->priv->timeout * 1000000: timeout is a guint, so the product is
\* taken in unsigned 32-bit arithmetic and wraps at 2^32
TimeoutUsec(tv) ==
  LET lo == (tv % Limb) * (USEC_PER_SEC % Limb)
      hi == (lo \div Limb) + (tv % Limb) * (USEC_PER_SEC \div Limb)
            + (((tv \div Limb) * (USEC_PER_SEC % Limb)) % Limb)
  IN  (hi % Limb) * Limb + (lo % Limb)

\* the deadline set by kdbus_source_new() and kdbus_source_dispatch(): the
\* gint64 time plus the 32-bit product
Deadline(t, tv) == IF tv # 0 THEN t + TimeoutUsec(tv) ELSE 0

\* g_cancellable_make_pollfd(): FALSE for no cancellable
g_cancellable_make_pollfd(c) == c # "NULL"

\* g_cancellable_is_cancelled(): FALSE for no cancellable
g_cancellable_is_cancelled(c) == c # "NULL" /\ cancelled

\* kdbus_source_new() without the g_object_ref() of line 643
kdbus_source_new_without_ref(w) ==
  /\ ~aborted
  /\ ~finalized
  /\ source[w].state = "none"
  /\ \E requested \in ConditionChoices, c \in Cancellables :
       /\ source' = [source EXCEPT ![w] =
            [NoSource EXCEPT
               !.state = "armed",
               !.condition = requested \cup {"HUP", "ERR"},
               !.cancellable = IF g_cancellable_make_pollfd(c) THEN c ELSE "NULL",
               !.fd = fd,
               !.revents = {},
               !.timeout_time = Deadline(now, timeout)]]
       /\ ref_count' = ref_count
       /\ cancel_fds' = IF g_cancellable_make_pollfd(c) THEN cancel_fds + 1
                        ELSE cancel_fds
  /\ UNCHANGED <<kvars, now, bigTicks, smallTicks, cancelled, owner_ref, finalized>>
  /\ UNCHANGED <<mvars, pvars, dvars, tvars>>

\* --------------------------------------------------------- kdbus_source_new
kdbus_source_new(w) ==
  /\ ~aborted
  /\ ~finalized
  /\ source[w].state = "none"
  /\ \E requested \in ConditionChoices, c \in Cancellables :
       /\ source' = [source EXCEPT ![w] =
            [NoSource EXCEPT
               !.state = "armed",
               !.condition = requested \cup {"HUP", "ERR"},
               !.cancellable = IF g_cancellable_make_pollfd(c) THEN c ELSE "NULL",
               !.fd = fd,
               !.revents = {},
               !.timeout_time = Deadline(now, timeout)]]
       \* line 643: g_object_ref (kdbus); lines 646-651: the pollfd made on
       \* the cancellable
       /\ ref_count' = ref_count + 1
       /\ cancel_fds' = IF g_cancellable_make_pollfd(c) THEN cancel_fds + 1
                        ELSE cancel_fds
  /\ UNCHANGED <<kvars, now, bigTicks, smallTicks, cancelled, owner_ref, finalized>>
  /\ UNCHANGED <<mvars, pvars, dvars, tvars>>

\* kdbus_source_prepare() looking at the cancellable after the deadline
PrepareResultCancelLast(s, t) ==
  LET ms == CDiv(s.timeout_time - t + 999, 1000) IN
  IF s.timeout_time # 0 /\ ms < 0
  THEN [ready |-> TRUE, timeout |-> [set |-> TRUE, v |-> 0], timed_out |-> TRUE,
        why |-> "timeout"]
  ELSE IF g_cancellable_is_cancelled(s.cancellable)
  THEN [ready |-> TRUE, timeout |-> [set |-> TRUE, v |-> IF s.timeout_time # 0 THEN ms ELSE -1],
        timed_out |-> FALSE, why |-> "cancel"]
  ELSE [ready |-> (s.condition \cap s.revents) # {},
        timeout |-> [set |-> TRUE, v |-> IF s.timeout_time # 0 THEN ms ELSE -1],
        timed_out |-> FALSE,
        why |-> IF (s.condition \cap s.revents) # {} THEN "fd" ELSE "none"]

\* ----------------------------------------------------- kdbus_source_prepare
\* What kdbus_source_prepare() does for source s at time t: its result, what
\* it writes to *timeout, whether it sets timed_out, and the branch taken.
PrepareResult(s, t) ==
  LET ms == CDiv(s.timeout_time - t + 999, 1000) IN
  IF g_cancellable_is_cancelled(s.cancellable)
  THEN [ready |-> TRUE, timeout |-> NoTimeout, timed_out |-> FALSE, why |-> "cancel"]
  ELSE IF s.timeout_time # 0 /\ ms < 0
  THEN [ready |-> TRUE, timeout |-> [set |-> TRUE, v |-> 0], timed_out |-> TRUE,
        why |-> "timeout"]
  ELSE [ready |-> (s.condition \cap s.revents) # {},
        timeout |-> [set |-> TRUE, v |-> IF s.timeout_time # 0 THEN ms ELSE -1],
        timed_out |-> FALSE,
        why |-> IF (s.condition \cap s.revents) # {} THEN "fd" ELSE "none"]

\* prepare() or check() on watch w, leaving it ready or in state other
RunPrepare(w, other) ==
  LET r == PrepareResult(source[w], now) IN
  /\ source' = [source EXCEPT ![w].state = IF r.ready THEN "ready" ELSE other,
                              ![w].timeout = r.timeout,
                              ![w].why = r.why]
  /\ timed_out' = (timed_out \/ r.timed_out)

kdbus_source_prepare(w) ==
  /\ ~aborted
  /\ source[w].state = "armed"
  /\ RunPrepare(w, "polling")
  /\ UNCHANGED <<fd, closed, registered, peer_id, bloom_size, buffer_ptr, timeout,
                 aborted, hello, last, now, bigTicks, smallTicks, cancelled, lvars>>
  /\ UNCHANGED <<mvars, pvars, dvars, tvars>>

\* what poll() can report for the requested events: nothing, or one of them
PollResults(events) == {{}} \cup {{e} : e \in events \ {"ERR"}}

\* the main loop polls the descriptor: revents is what it reports
Poll(w) ==
  /\ ~aborted
  /\ source[w].state = "polling"
  /\ \E r \in PollResults(source[w].condition) :
       source' = [source EXCEPT ![w].state = "polled", ![w].revents = r,
                                ![w].reported = r]
  /\ UNCHANGED <<kvars, now, bigTicks, smallTicks, cancelled, lvars>>
  /\ UNCHANGED <<mvars, pvars, dvars, tvars>>

kdbus_source_check(w) ==
  /\ ~aborted
  /\ source[w].state = "polled"
  /\ RunPrepare(w, "armed")
  /\ UNCHANGED <<fd, closed, registered, peer_id, bloom_size, buffer_ptr, timeout,
                 aborted, hello, last, now, bigTicks, smallTicks, cancelled, lvars>>
  /\ UNCHANGED <<mvars, pvars, dvars, tvars>>

\* kdbus_source_dispatch() without the synthetic condition of line 548
DispatchReventsAsPolled(s) == s.revents

\* ---------------------------------------------------- kdbus_source_dispatch
\* pollfd.revents after line 548
DispatchRevents(s) ==
  IF timed_out THEN s.revents \cup (s.condition \cap {IOIn, IOOut}) ELSE s.revents

\* keep: what the callback returns; FALSE removes the source
kdbus_source_dispatch(w) ==
  /\ ~aborted
  /\ source[w].state = "ready"
  /\ \E keep \in BOOLEAN :
       LET s  == source[w]
           rv == DispatchRevents(s)
       IN  source' = [source EXCEPT ![w] =
             [s EXCEPT !.state = IF keep THEN "armed" ELSE "removed",
                       !.revents = rv,
                       !.dispatched = TRUE,
                       !.cb_condition = rv \cap s.condition,
                       !.cb_why = s.why,
                       !.timeout_time = Deadline(now, timeout)]]
  /\ UNCHANGED <<kvars, now, bigTicks, smallTicks, cancelled, lvars>>
  /\ UNCHANGED <<mvars, pvars, dvars, tvars>>

\* ----------------------------------------------------------- g_kdbus_finalize
\* closes the endpoint if it has a descriptor and is not closed
g_kdbus_finalize ==
  /\ finalized' = TRUE
  /\ IF fd # NoFd /\ ~closed
     THEN /\ closed' = TRUE
          /\ fd' = NoFd
          /\ hello' = FALSE
          /\ registered' = FALSE
          /\ last' = Last("close", TRUE, 1, CloseCall, <<>>, NoKMsg)
          /\ UNCHANGED <<peer_id, bloom_size, buffer_ptr, timeout, timed_out, aborted>>
     ELSE UNCHANGED kvars

\* g_object_unref (kdbus): the last reference finalises the endpoint
UnrefEndpoint ==
  /\ ref_count' = ref_count - 1
  /\ IF ref_count = 1 THEN g_kdbus_finalize ELSE UNCHANGED <<kvars, finalized>>

\* the creator of the endpoint drops the reference it got from g_object_new()
g_object_unref ==
  /\ ~aborted
  /\ owner_ref
  /\ owner_ref' = FALSE
  /\ UnrefEndpoint
  /\ UNCHANGED <<source, now, bigTicks, smallTicks, cancelled, cancel_fds>>
  /\ UNCHANGED <<mvars, pvars, dvars, tvars>>

\* ------------------------------------------------------- kdbus_source_finalize
\* the main loop finalises a source that has been removed
kdbus_source_finalize(w) ==
  /\ ~aborted
  /\ source[w].state = "removed"
  /\ source' = [source EXCEPT ![w].state = "finalized"]
  /\ UnrefEndpoint
  /\ cancel_fds' = IF source[w].cancellable # "NULL" THEN cancel_fds - 1 ELSE cancel_fds
  /\ UNCHANGED <<now, bigTicks, smallTicks, cancelled, owner_ref>>
  /\ UNCHANGED <<mvars, pvars, dvars, tvars>>

\* g_source_destroy(): the watch is removed before its callback asks for it
g_source_destroy(w) ==
  /\ ~aborted
  /\ source[w].state \in {"armed", "polling", "polled", "ready"}
  /\ source' = [source EXCEPT ![w].state = "removed"]
  /\ UNCHANGED <<kvars, now, bigTicks, smallTicks, cancelled, lvars>>
  /\ UNCHANGED <<mvars, pvars, dvars, tvars>>

\* ------------------------------------------------------------ environment
g_cancellable_cancel ==
  /\ ~aborted
  /\ ~cancelled
  /\ cancelled' = TRUE
  /\ UNCHANGED <<kvars, source, now, bigTicks, smallTicks, lvars>>
  /\ UNCHANGED <<mvars, pvars, dvars, tvars>>

TickSecond ==
  /\ ~aborted
  /\ bigTicks < MaxSeconds
  /\ bigTicks' = bigTicks + 1
  /\ now' = now + USEC_PER_SEC
  /\ UNCHANGED <<kvars, source, smallTicks, cancelled, lvars>>
  /\ UNCHANGED <<mvars, pvars, dvars, tvars>>

TickSmall ==
  /\ ~aborted
  /\ smallTicks < MaxSmallTicks
  /\ smallTicks' = smallTicks + 1
  /\ \E d \in SmallTicks : now' = now + d
  /\ UNCHANGED <<kvars, source, bigTicks, cancelled, lvars>>
  /\ UNCHANGED <<mvars, pvars, dvars, tvars>>

\* ====================================================== futex GMutex, GCond
MaxSignals == 2
Threads == {"t1", "t2", "t3"}
IntMin == 0 - IntMax - 1

MutexInit ==
  /\ mutex = 0
  /\ cond = 0
  /\ pc = [t \in Threads |-> "idle"]
  /\ sampled = [t \in Threads |-> 0]
  /\ inwait = [t \in Threads |-> FALSE]
  /\ sigret = [t \in Threads |-> "idle"]
  /\ nsignals = 0
  /\ owed = 0

\* g_atomic_int_inc() / the decrement of g_atomic_int_dec_and_test() on a gint
AtomicInc(v) == IF v = IntMax THEN IntMin ELSE v + 1
AtomicDec(v) == IF v = IntMin THEN IntMax ELSE v - 1

Goto(t, label) == pc' = [pc EXCEPT ![t] = label]

\* the threads asleep in futex(FUTEX_WAIT) on the mutex word, on the counter
MutexSleepers == {t \in Threads : pc[t] = "slow_asleep"}
CondSleepers == {t \in Threads : pc[t] = "cond_asleep"}

\* the threads inside g_cond_wait() that have not yet come out of its futex wait
Waiting ==
  {t \in Threads : inwait[t] /\ pc[t] \in {"unlock", "unlock_set", "unlock_wake",
                                             "cond_wait", "cond_asleep"}}

\* the thread holds the mutex: it acquired it and has not called unlock
Holds(t) ==
  \/ pc[t] = "locked"
  \/ pc[t] \in {"signal_wake", "broadcast_wake"} /\ sigret[t] = "locked"

\* g_mutex_lock() has acquired the mutex for t; inside g_cond_wait() this is
\* where g_cond_wait() returns and its local, sampled, goes out of scope
Acquired(t) ==
  /\ Goto(t, "locked")
  /\ inwait' = [inwait EXCEPT ![t] = FALSE]
  /\ sampled' = [sampled EXCEPT ![t] = 0]

\* ---------------------------------------------------------------- g_mutex_lock
\* the call, from a thread that does not hold the mutex
CallLock(t) ==
  /\ pc[t] = "idle"
  /\ Goto(t, "lock")
  /\ UNCHANGED <<mutex, cond, sampled, inwait, sigret, nsignals, owed>>
  /\ UNCHANGED <<kvars, svars, pvars, dvars, tvars>>

\* line 84: g_atomic_int_compare_and_exchange (mutex->i, 0, 1)
g_mutex_lock(t) ==
  /\ pc[t] = "lock"
  /\ IF mutex = 0
     THEN mutex' = 1 /\ Acquired(t)
     ELSE mutex' = mutex /\ Goto(t, "slow_xchg") /\ UNCHANGED <<inwait, sampled>>
  /\ UNCHANGED <<cond, sigret, nsignals, owed>>
  /\ UNCHANGED <<kvars, svars, pvars, dvars, tvars>>

\* lines 72, 77: value = __sync_lock_test_and_set (mutex->i, 2)
SlowpathExchange(t) ==
  /\ pc[t] = "slow_xchg"
  /\ mutex' = 2
  /\ IF mutex = 0
     THEN Acquired(t)
     ELSE Goto(t, "slow_wait") /\ UNCHANGED <<inwait, sampled>>
  /\ UNCHANGED <<cond, sigret, nsignals, owed>>
  /\ UNCHANGED <<kvars, svars, pvars, dvars, tvars>>

\* line 76: futex (FUTEX_WAIT, 2) sleeps only if the word still holds 2
SlowpathFutexWait(t) ==
  /\ pc[t] = "slow_wait"
  /\ IF mutex = 2 THEN Goto(t, "slow_asleep") ELSE Goto(t, "slow_xchg")
  /\ UNCHANGED <<mutex, cond, sampled, inwait, sigret, nsignals, owed>>
  /\ UNCHANGED <<kvars, svars, pvars, dvars, tvars>>

g_mutex_lock_slowpath(t) == SlowpathExchange(t) \/ SlowpathFutexWait(t)

\* g_mutex_trylock() storing 1 without comparing with 0
g_mutex_trylock_no_compare(t) ==
  /\ pc[t] = "idle"
  /\ mutex' = 1
  /\ Goto(t, "locked")
  /\ UNCHANGED <<cond, sampled, inwait, sigret, nsignals, owed>>
  /\ UNCHANGED <<kvars, svars, pvars, dvars, tvars>>

\* ------------------------------------------------------------- g_mutex_trylock
g_mutex_trylock(t) ==
  /\ pc[t] = "idle"
  /\ IF mutex = 0
     THEN mutex' = 1 /\ Goto(t, "locked")
     ELSE mutex' = mutex /\ pc' = pc
  /\ UNCHANGED <<cond, sampled, inwait, sigret, nsignals, owed>>
  /\ UNCHANGED <<kvars, svars, pvars, dvars, tvars>>

\* -------------------------------------------------------------- g_mutex_unlock
\* where a thread goes when g_mutex_unlock() returns
AfterUnlock(t) == IF inwait[t] THEN "cond_wait" ELSE "idle"

CallUnlock(t) ==
  /\ pc[t] = "locked"
  /\ Goto(t, "unlock")
  /\ UNCHANGED <<mutex, cond, sampled, inwait, sigret, nsignals, owed>>
  /\ UNCHANGED <<kvars, svars, pvars, dvars, tvars>>

\* line 98: g_atomic_int_dec_and_test (mutex->i)
g_mutex_unlock(t) ==
  /\ pc[t] = "unlock"
  /\ mutex' = AtomicDec(mutex)
  /\ IF mutex' = 0 THEN Goto(t, AfterUnlock(t)) ELSE Goto(t, "unlock_set")
  /\ UNCHANGED <<cond, sampled, inwait, sigret, nsignals, owed>>
  /\ UNCHANGED <<kvars, svars, pvars, dvars, tvars>>

\* line 91: g_atomic_int_set (mutex->i, 0)
UnlockSlowpathSet(t) ==
  /\ pc[t] = "unlock_set"
  /\ mutex' = 0
  /\ Goto(t, "unlock_wake")
  /\ UNCHANGED <<cond, sampled, inwait, sigret, nsignals, owed>>
  /\ UNCHANGED <<kvars, svars, pvars, dvars, tvars>>

\* the threads futex (FUTEX_WAKE, 1) may wake among the sleepers: one of them,
\* none when nobody sleeps
WakeOne(sleepers) == IF sleepers = {} THEN {{}} ELSE {{x} : x \in sleepers}

\* g_mutex_unlock_slowpath() without the FUTEX_WAKE
UnlockSlowpathNoWake(t) ==
  /\ pc[t] = "unlock_wake"
  /\ Goto(t, AfterUnlock(t))
  /\ UNCHANGED <<mutex, cond, sampled, inwait, sigret, nsignals, owed>>
  /\ UNCHANGED <<kvars, svars, pvars, dvars, tvars>>

\* line 92: futex (FUTEX_WAKE, 1)
UnlockSlowpathWake(t) ==
  /\ pc[t] = "unlock_wake"
  /\ \E woken \in WakeOne(MutexSleepers) :
       pc' = [x \in Threads |-> IF x = t THEN AfterUnlock(t)
                                ELSE IF x \in woken THEN "slow_xchg" ELSE pc[x]]
  /\ UNCHANGED <<mutex, cond, sampled, inwait, sigret, nsignals, owed>>
  /\ UNCHANGED <<kvars, svars, pvars, dvars, tvars>>

g_mutex_unlock_slowpath(t) == UnlockSlowpathSet(t) \/ UnlockSlowpathWake(t)

\* futex (FUTEX_WAIT) may return without a wake-up (a signal interrupts it)
SpuriousWake(t) ==
  /\ pc[t] \in {"slow_asleep", "cond_asleep"}
  /\ IF pc[t] = "slow_asleep"
     THEN Goto(t, "slow_xchg") /\ owed' = owed
     ELSE Goto(t, "lock") /\ owed' = IF owed > 0 THEN owed - 1 ELSE 0
  /\ UNCHANGED <<mutex, cond, sampled, inwait, sigret, nsignals>>
  /\ UNCHANGED <<kvars, svars, pvars, dvars, tvars>>

\* ----------------------------------------------------------------- g_cond_wait
\* line 272: sampled = cond->i[0], then the call of g_mutex_unlock()
CondWaitSample(t) ==
  /\ pc[t] = "locked"
  /\ sampled' = [sampled EXCEPT ![t] = cond]
  /\ inwait' = [inwait EXCEPT ![t] = TRUE]
  /\ Goto(t, "unlock")
  /\ UNCHANGED <<mutex, cond, sigret, nsignals, owed>>
  /\ UNCHANGED <<kvars, svars, pvars, dvars, tvars>>

\* line 275: futex (FUTEX_WAIT, sampled) sleeps only if the counter still holds
\* the sampled value; otherwise g_mutex_lock() is called at once
CondWaitFutex(t) ==
  /\ pc[t] = "cond_wait"
  /\ IF cond = sampled[t]
     THEN Goto(t, "cond_asleep") /\ owed' = owed
     ELSE Goto(t, "lock") /\ owed' = IF owed > 0 THEN owed - 1 ELSE 0
  /\ UNCHANGED <<mutex, cond, sampled, inwait, sigret, nsignals>>
  /\ UNCHANGED <<kvars, svars, pvars, dvars, tvars>>

g_cond_wait(t) == CondWaitSample(t) \/ CondWaitFutex(t)

\* -------------------------------------------- g_cond_signal, g_cond_broadcast
Min(a, b) == IF a < b THEN a ELSE b

\* g_cond_signal() / g_cond_broadcast() without the increment of the counter
CondNoIncrement(t, wake) ==
  /\ pc[t] \in {"idle", "locked"}
  /\ nsignals < MaxSignals
  /\ nsignals' = nsignals + 1
  /\ cond' = cond
  /\ sigret' = [sigret EXCEPT ![t] = pc[t]]
  /\ Goto(t, wake)
  /\ owed' = IF wake = "signal_wake" THEN Min(owed + 1, Cardinality(Waiting))
             ELSE Cardinality(Waiting)
  /\ UNCHANGED <<mutex, sampled, inwait>>
  /\ UNCHANGED <<kvars, svars, pvars, dvars, tvars>>

\* lines 282, 290: g_atomic_int_inc (cond->i)
CondIncrement(t, wake) ==
  /\ pc[t] \in {"idle", "locked"}
  /\ nsignals < MaxSignals
  /\ nsignals' = nsignals + 1
  /\ cond' = AtomicInc(cond)
  /\ sigret' = [sigret EXCEPT ![t] = pc[t]]
  /\ Goto(t, wake)
  /\ owed' = IF wake = "signal_wake" THEN Min(owed + 1, Cardinality(Waiting))
             ELSE Cardinality(Waiting)
  /\ UNCHANGED <<mutex, sampled, inwait>>
  /\ UNCHANGED <<kvars, svars, pvars, dvars, tvars>>

\* lines 284, 292: futex (FUTEX_WAKE, 1) or futex (FUTEX_WAKE, INT_MAX)
CondWake(t) ==
  /\ pc[t] \in {"signal_wake", "broadcast_wake"}
  /\ \E woken \in (IF pc[t] = "signal_wake" THEN WakeOne(CondSleepers)
                    ELSE {CondSleepers}) :
       /\ pc' = [x \in Threads |-> IF x = t THEN sigret[t]
                                   ELSE IF x \in woken THEN "lock" ELSE pc[x]]
       /\ owed' = IF owed > Cardinality(woken) THEN owed - Cardinality(woken) ELSE 0
  /\ sigret' = [sigret EXCEPT ![t] = "idle"]
  /\ UNCHANGED <<mutex, cond, sampled, inwait, nsignals>>
  /\ UNCHANGED <<kvars, svars, pvars, dvars, tvars>>

g_cond_signal(t) == CondIncrement(t, "signal_wake") \/ (pc[t] = "signal_wake" /\ CondWake(t))

g_cond_broadcast(t) ==
  CondIncrement(t, "broadcast_wake") \/ (pc[t] = "broadcast_wake" /\ CondWake(t))

\* ============================================ GProperty, G_PROPERTY_ATOMIC
\* the addresses g_new0 (gint, 1) can return
LockWords == {"w1", "w2", "w3"}

PropertyInit ==
  /\ qdata = "NULL"
  /\ allocated = {}
  /\ lockbit = [w \in LockWords |-> 0]
  /\ ppc = [t \in Threads |-> "idle"]
  /\ bit_lock_p = [t \in Threads |-> "NULL"]
  /\ use_after_free = FALSE

PGoto(t, label) == ppc' = [ppc EXCEPT ![t] = label]

\* g_object_set_qdata_full() / g_object_set_qdata(): the new value replaces the
\* old one, and the old one is passed to its destroy function, g_free()
SetQdata(value) ==
  /\ qdata' = value
  /\ allocated' = allocated \ {qdata}

\* ------------------------------------------------- g_property_default_lock
\* line 677: bit_lock_p = g_object_get_qdata (gobject, property->prop_id)
LockGetQdata(t) ==
  /\ ppc[t] = "idle"
  /\ bit_lock_p' = [bit_lock_p EXCEPT ![t] = qdata]
  /\ PGoto(t, IF qdata = "NULL" THEN "alloc" ELSE "bit_lock")
  /\ UNCHANGED <<qdata, allocated, lockbit, use_after_free>>
  /\ UNCHANGED <<kvars, svars, mvars, dvars, tvars>>

\* line 680: bit_lock_p = g_new0 (gint, 1)
LockAlloc(t) ==
  /\ ppc[t] = "alloc"
  /\ \E w \in LockWords \ allocated :
       /\ allocated' = allocated \cup {w}
       /\ lockbit' = [lockbit EXCEPT ![w] = 0]
       /\ bit_lock_p' = [bit_lock_p EXCEPT ![t] = w]
  /\ PGoto(t, "set_qdata")
  /\ UNCHANGED <<qdata, use_after_free>>
  /\ UNCHANGED <<kvars, svars, mvars, dvars, tvars>>

\* line 681: g_object_set_qdata_full (gobject, prop_id, bit_lock_p, g_free)
LockSetQdata(t) ==
  /\ ppc[t] = "set_qdata"
  /\ SetQdata(bit_lock_p[t])
  /\ PGoto(t, "bit_lock")
  /\ UNCHANGED <<lockbit, bit_lock_p, use_after_free>>
  /\ UNCHANGED <<kvars, svars, mvars, dvars, tvars>>

\* line 684: g_bit_lock (bit_lock_p, 0) blocks while the bit is set; on a word
\* that has been freed its outcome is undefined: it may acquire or block
LockBitLock(t) ==
  /\ ppc[t] = "bit_lock"
  /\ IF bit_lock_p[t] \in allocated
     THEN /\ lockbit[bit_lock_p[t]] = 0
          /\ lockbit' = [lockbit EXCEPT ![bit_lock_p[t]] = 1]
          /\ PGoto(t, "locked")
          /\ UNCHANGED use_after_free
     ELSE /\ use_after_free' = TRUE
          /\ \E acquires \in BOOLEAN : PGoto(t, IF acquires THEN "locked" ELSE "bit_lock")
          /\ UNCHANGED lockbit
  /\ UNCHANGED <<qdata, allocated, bit_lock_p>>
  /\ UNCHANGED <<kvars, svars, mvars, dvars, tvars>>

g_property_default_lock(t) ==
  LockGetQdata(t) \/ LockAlloc(t) \/ LockSetQdata(t) \/ LockBitLock(t)

\* ----------------------------------------------- g_property_default_unlock
\* lines 693-695: bit_lock_p = g_object_get_qdata (); if NULL, return
UnlockGetQdata(t) ==
  /\ ppc[t] = "locked"
  /\ bit_lock_p' = [bit_lock_p EXCEPT ![t] = qdata]
  /\ PGoto(t, IF qdata = "NULL" THEN "idle" ELSE "bit_unlock")
  /\ UNCHANGED <<qdata, allocated, lockbit, use_after_free>>
  /\ UNCHANGED <<kvars, svars, mvars, dvars, tvars>>

\* line 697: g_bit_unlock (bit_lock_p, 0)
UnlockBitUnlock(t) ==
  /\ ppc[t] = "bit_unlock"
  /\ IF bit_lock_p[t] \in allocated
     THEN lockbit' = [lockbit EXCEPT ![bit_lock_p[t]] = 0] /\ UNCHANGED use_after_free
     ELSE use_after_free' = TRUE /\ UNCHANGED lockbit
  /\ PGoto(t, "clear_qdata")
  /\ UNCHANGED <<qdata, allocated, bit_lock_p>>
  /\ UNCHANGED <<kvars, svars, mvars, dvars, tvars>>

\* line 698: g_object_set_qdata (gobject, property->prop_id, NULL)
UnlockClearQdata(t) ==
  /\ ppc[t] = "clear_qdata"
  /\ SetQdata("NULL")
  /\ PGoto(t, "idle")
  /\ UNCHANGED <<lockbit, bit_lock_p, use_after_free>>
  /\ UNCHANGED <<kvars, svars, mvars, dvars, tvars>>

g_property_default_unlock(t) ==
  UnlockGetQdata(t) \/ UnlockBitUnlock(t) \/ UnlockClearQdata(t)

\* ======================================================= futex GRecMutex
MaxDepth == 3

\* gmutex.h 47-52: GRecMutex is a union, so p and i[0] share their storage:
\* i[0] is the low word of p where the low word comes first (and where a
\* pointer is one word), the high word of p where the high word comes first
Layouts == {"low", "high"}

\* a pointer-sized value is <<high word, low word>>
NullPtr == <<0, 0>>

\* pthread_self() of each thread
Tid(t) ==
  CASE t = "t1" -> <<1, 16>>
    [] t = "t2" -> <<1, 32>>
    [] OTHER -> <<0, 48>>

\* rec_mutex->i[0], and the union after a store to rec_mutex->i[0]
I0(p) == IF layout = "low" THEN p[2] ELSE p[1]
SetI0(p, w) == IF layout = "low" THEN <<p[1], w>> ELSE <<w, p[2]>>

\* value & 1, value | 1, value & ~1ul
Contended(v) == v[2] % 2 = 1
MarkContended(v) == IF Contended(v) THEN v ELSE <<v[1], v[2] + 1>>
ClearContended(v) == IF Contended(v) THEN <<v[1], v[2] - 1>> ELSE v

\* lines 113-115: p = NULL, i[0] = 0, i[1] = 0; no thread is in a call
g_rec_mutex_init ==
  /\ rec_mutex = NullPtr
  /\ rpc = [t \in Threads |-> "idle"]
  /\ rvalue = [t \in Threads |-> NullPtr]
  /\ rreg = [t \in Threads |-> 0]
  /\ rcall = [t \in Threads |-> "none"]
  /\ rret = [t \in Threads |-> "none"]
  /\ rec_held = [t \in Threads |-> 0]

RecMutexInit == layout = "low" /\ g_rec_mutex_init

RGoto(t, label) == rpc' = [rpc EXCEPT ![t] = label]

\* the call of t returns: its locals are gone
RecReturn(t) ==
  /\ rvalue' = [rvalue EXCEPT ![t] = NullPtr]
  /\ rreg' = [rreg EXCEPT ![t] = 0]
  /\ rcall' = [rcall EXCEPT ![t] = "none"]

\* g_rec_mutex_lock() or g_rec_mutex_trylock() returns to t with the lock
RecAcquired(t) ==
  /\ RGoto(t, "idle")
  /\ RecReturn(t)
  /\ rec_held' = [rec_held EXCEPT ![t] = @ + 1]
  /\ rret' = [rret EXCEPT ![t] = IF rcall[t] = "trylock" THEN "TRUE" ELSE "none"]

RecSleepers == {t \in Threads : rpc[t] = "asleep"}

\* ------------------------------------------------------------ g_rec_mutex_lock
CallRecLock(t) ==
  /\ rpc[t] = "idle"
  /\ rec_held[t] < MaxDepth
  /\ RGoto(t, "lock")
  /\ rcall' = [rcall EXCEPT ![t] = "lock"]
  /\ rret' = [rret EXCEPT ![t] = "none"]
  /\ UNCHANGED <<layout, rec_mutex, rvalue, rreg, rec_held>>
  /\ UNCHANGED <<kvars, svars, mvars, pvars, dvars, gvars, uvars>>

\* lines 160, 162: prev = __sync_val_compare_and_swap (&rec_mutex->p, 0, tid)
\* and the test of prev
g_rec_mutex_lock(t) ==
  /\ rpc[t] = "lock"
  /\ rec_mutex' = IF rec_mutex = NullPtr THEN Tid(t) ELSE rec_mutex
  /\ rvalue' = [rvalue EXCEPT ![t] = rec_mutex]
  /\ IF rec_mutex = NullPtr \/ ClearContended(rec_mutex) = Tid(t)
     THEN RGoto(t, "inc_load")
     ELSE RGoto(t, "start_over")
  /\ UNCHANGED <<layout, rreg, rcall, rret, rec_held>>
  /\ UNCHANGED <<kvars, svars, mvars, pvars, dvars, gvars, uvars>>

\* lines 164, 198: rec_mutex->i[0]++ is a plain load ...
IncLoad(t) ==
  /\ rpc[t] = "inc_load"
  /\ rreg' = [rreg EXCEPT ![t] = I0(rec_mutex)]
  /\ RGoto(t, "inc_store")
  /\ UNCHANGED <<layout, rec_mutex, rvalue, rcall, rret, rec_held>>
  /\ UNCHANGED <<kvars, svars, mvars, pvars, dvars, gvars, uvars>>

\* ... and a plain store, and the function returns
IncStore(t) ==
  /\ rpc[t] = "inc_store"
  /\ rec_mutex' = SetI0(rec_mutex, AtomicInc(rreg[t]))
  /\ RecAcquired(t)
  /\ UNCHANGED layout
  /\ UNCHANGED <<kvars, svars, mvars, pvars, dvars, gvars, uvars>>

\* line 130: value = g_atomic_pointer_get (&rec_mutex->p)
SlowpathStartOver(t) ==
  /\ rpc[t] = "start_over"
  /\ rvalue' = [rvalue EXCEPT ![t] = rec_mutex]
  /\ IF rec_mutex = NullPtr
     THEN RGoto(t, "try_to_acquire")
     ELSE RGoto(t, "mark_contended")
  /\ UNCHANGED <<layout, rec_mutex, rreg, rcall, rret, rec_held>>
  /\ UNCHANGED <<kvars, svars, mvars, pvars, dvars, gvars, uvars>>

\* lines 135-141: the contended bit is set unless value has it
SlowpathMarkContended(t) ==
  /\ rpc[t] = "mark_contended"
  /\ IF Contended(rvalue[t])
     THEN RGoto(t, "wait") /\ UNCHANGED <<rec_mutex, rvalue>>
     ELSE IF rec_mutex = rvalue[t]
          THEN /\ rec_mutex' = MarkContended(rvalue[t])
               /\ rvalue' = [rvalue EXCEPT ![t] = MarkContended(@)]
               /\ RGoto(t, "wait")
          ELSE RGoto(t, "start_over") /\ UNCHANGED <<rec_mutex, rvalue>>
  /\ UNCHANGED <<layout, rreg, rcall, rret, rec_held>>
  /\ UNCHANGED <<kvars, svars, mvars, pvars, dvars, gvars, uvars>>

\* line 144: futex (&rec_mutex->p, FUTEX_WAIT, (guint) value) sleeps only if
\* the 32-bit word at the address of p holds the low word of value
SlowpathFutexWaitRec(t) ==
  /\ rpc[t] = "wait"
  /\ IF I0(rec_mutex) = rvalue[t][2]
     THEN RGoto(t, "asleep")
     ELSE RGoto(t, "try_to_acquire")
  /\ UNCHANGED <<layout, rec_mutex, rvalue, rreg, rcall, rret, rec_held>>
  /\ UNCHANGED <<kvars, svars, mvars, pvars, dvars, gvars, uvars>>

\* lines 147-149: value = __sync_val_compare_and_swap (&rec_mutex->p, 0, tid | 1)
SlowpathTryToAcquire(t) ==
  /\ rpc[t] = "try_to_acquire"
  /\ rvalue' = [rvalue EXCEPT ![t] = rec_mutex]
  /\ IF rec_mutex = NullPtr
     THEN rec_mutex' = MarkContended(Tid(t)) /\ RGoto(t, "set_one")
     ELSE rec_mutex' = rec_mutex /\ RGoto(t, "mark_contended")
  /\ UNCHANGED <<layout, rreg, rcall, rret, rec_held>>
  /\ UNCHANGED <<kvars, svars, mvars, pvars, dvars, gvars, uvars>>

\* line 151: rec_mutex->i[0] = 1, and the lock is taken
SlowpathSetOne(t) ==
  /\ rpc[t] = "set_one"
  /\ rec_mutex' = SetI0(rec_mutex, 1)
  /\ RecAcquired(t)
  /\ UNCHANGED layout
  /\ UNCHANGED <<kvars, svars, mvars, pvars, dvars, gvars, uvars>>

g_rec_mutex_lock_slowpath(t) ==
  \/ SlowpathStartOver(t)
  \/ SlowpathMarkContended(t)
  \/ SlowpathFutexWaitRec(t)
  \/ SlowpathTryToAcquire(t)
  \/ SlowpathSetOne(t)

\* --------------------------------------------------------- g_rec_mutex_trylock
CallRecTrylock(t) ==
  /\ rpc[t] = "idle"
  /\ rec_held[t] < MaxDepth
  /\ RGoto(t, "trylock")
  /\ rcall' = [rcall EXCEPT ![t] = "trylock"]
  /\ rret' = [rret EXCEPT ![t] = "none"]
  /\ UNCHANGED <<layout, rec_mutex, rvalue, rreg, rec_held>>
  /\ UNCHANGED <<kvars, svars, mvars, pvars, dvars, gvars, uvars>>

\* lines 194-202: the same exchange and test; FALSE where the lock waits
g_rec_mutex_trylock(t) ==
  /\ rpc[t] = "trylock"
  /\ rec_mutex' = IF rec_mutex = NullPtr THEN Tid(t) ELSE rec_mutex
  /\ IF rec_mutex = NullPtr \/ ClearContended(rec_mutex) = Tid(t)
     THEN /\ RGoto(t, "inc_load")
          /\ rvalue' = [rvalue EXCEPT ![t] = rec_mutex]
          /\ UNCHANGED <<rreg, rcall, rret>>
     ELSE /\ RGoto(t, "idle")
          /\ RecReturn(t)
          /\ rret' = [rret EXCEPT ![t] = "FALSE"]
  /\ UNCHANGED <<layout, rec_held>>
  /\ UNCHANGED <<kvars, svars, mvars, pvars, dvars, gvars, uvars>>

\* ---------------------------------------------------------- g_rec_mutex_unlock
\* the call, from a thread that holds the lock
CallRecUnlock(t) ==
  /\ rpc[t] = "idle"
  /\ rec_held[t] >= 1
  /\ RGoto(t, "dec_load")
  /\ rcall' = [rcall EXCEPT ![t] = "unlock"]
  /\ rret' = [rret EXCEPT ![t] = "none"]
  /\ rec_held' = [rec_held EXCEPT ![t] = @ - 1]
  /\ UNCHANGED <<layout, rec_mutex, rvalue, rreg>>
  /\ UNCHANGED <<kvars, svars, mvars, pvars, dvars, gvars, uvars>>

\* line 174: --rec_mutex->i[0] is a plain load ...
DecLoad(t) ==
  /\ rpc[t] = "dec_load"
  /\ rreg' = [rreg EXCEPT ![t] = I0(rec_mutex)]
  /\ RGoto(t, "dec_store")
  /\ UNCHANGED <<layout, rec_mutex, rvalue, rcall, rret, rec_held>>
  /\ UNCHANGED <<kvars, svars, mvars, pvars, dvars, gvars, uvars>>

\* ... and a plain store; the function returns unless the count is now 0
DecStore(t) ==
  /\ rpc[t] = "dec_store"
  /\ rec_mutex' = SetI0(rec_mutex, AtomicDec(rreg[t]))
  /\ IF AtomicDec(rreg[t]) = 0
     THEN RGoto(t, "unlock_read") /\ UNCHANGED <<rvalue, rreg, rcall>>
     ELSE RGoto(t, "idle") /\ RecReturn(t)
  /\ UNCHANGED <<layout, rret, rec_held>>
  /\ UNCHANGED <<kvars, svars, mvars, pvars, dvars, gvars, uvars>>

\* line 178: tid = (gulong) rec_mutex->p
UnlockRead(t) ==
  /\ rpc[t] = "unlock_read"
  /\ rvalue' = [rvalue EXCEPT ![t] = rec_mutex]
  /\ RGoto(t, "unlock_set")
  /\ UNCHANGED <<layout, rec_mutex, rreg, rcall, rret, rec_held>>
  /\ UNCHANGED <<kvars, svars, mvars, pvars, dvars, gvars, uvars>>

\* lines 179-182: g_atomic_pointer_set (&rec_mutex->p, NULL), and the return
\* when tid has no contended bit
UnlockSet(t) ==
  /\ rpc[t] = "unlock_set"
  /\ rec_mutex' = NullPtr
  /\ IF Contended(rvalue[t])
     THEN RGoto(t, "unlock_wake") /\ UNCHANGED <<rvalue, rreg, rcall>>
     ELSE RGoto(t, "idle") /\ RecReturn(t)
  /\ UNCHANGED <<layout, rret, rec_held>>
  /\ UNCHANGED <<kvars, svars, mvars, pvars, dvars, gvars, uvars>>

\* line 184: futex (&rec_mutex->p, FUTEX_WAKE, 1)
UnlockWake(t) ==
  /\ rpc[t] = "unlock_wake"
  /\ \E woken \in WakeOne(RecSleepers) :
       rpc' = [u \in Threads |->
                 IF u = t THEN "idle"
                 ELSE IF u \in woken THEN "try_to_acquire" ELSE rpc[u]]
  /\ RecReturn(t)
  /\ UNCHANGED <<layout, rec_mutex, rret, rec_held>>
  /\ UNCHANGED <<kvars, svars, mvars, pvars, dvars, gvars, uvars>>

g_rec_mutex_unlock(t) ==
  DecLoad(t) \/ DecStore(t) \/ UnlockRead(t) \/ UnlockSet(t) \/ UnlockWake(t)

\* ================================================================ GPrivate
MaxKeys == 2

\* the values pthread_key_create() can hand out
KeyValues == 0 .. MaxKeys
PrivThreads == {"t1", "t2"}
PrivValues == {"a", "b"}
NoCall == [op |-> "none", value |-> "NULL"]

PrivateInit ==
  /\ key_p = 0
  /\ keys = {}
  /\ tsd = [k \in KeyValues |-> [t \in PrivThreads |-> "NULL"]]
  /\ gpc = [t \in PrivThreads |-> "idle"]
  /\ gimpl = [t \in PrivThreads |-> 0]
  /\ gcall = [t \in PrivThreads |-> NoCall]
  /\ gret = [t \in PrivThreads |-> "none"]
  /\ gstored = [t \in PrivThreads |-> "NULL"]
  /\ gaborted = FALSE

ThreadInit == RecMutexInit /\ PrivateInit

GGoto(t, label) == gpc' = [gpc EXCEPT ![t] = label]

CallPrivateGet(t) ==
  /\ ~gaborted
  /\ gpc[t] = "idle"
  /\ GGoto(t, "impl")
  /\ gcall' = [gcall EXCEPT ![t] = [op |-> "get", value |-> "NULL"]]
  /\ gret' = [gret EXCEPT ![t] = "none"]
  /\ UNCHANGED <<key_p, keys, tsd, gimpl, gstored, gaborted>>
  /\ UNCHANGED <<kvars, svars, mvars, pvars, dvars, rvars, uvars>>

CallPrivateSet(t, v) ==
  /\ ~gaborted
  /\ gpc[t] = "idle"
  /\ GGoto(t, "impl")
  /\ gcall' = [gcall EXCEPT ![t] = [op |-> "set", value |-> v]]
  /\ gret' = [gret EXCEPT ![t] = "none"]
  /\ UNCHANGED <<key_p, keys, tsd, gimpl, gstored, gaborted>>
  /\ UNCHANGED <<kvars, svars, mvars, pvars, dvars, rvars, uvars>>

\* lines 316, 318: impl = (gsize) key->p; if (impl == 0)
ImplRead(t) ==
  /\ ~gaborted
  /\ gpc[t] = "impl"
  /\ gimpl' = [gimpl EXCEPT ![t] = key_p]
  /\ IF key_p = 0 THEN GGoto(t, "create") ELSE GGoto(t, "use")
  /\ UNCHANGED <<key_p, keys, tsd, gcall, gret, gstored, gaborted>>
  /\ UNCHANGED <<kvars, svars, mvars, pvars, dvars, rvars, uvars>>

\* lines 322-324: pthread_key_create (&impl, key->notify) hands out a key that
\* is not in use, whose value is NULL in every thread; with no key left it
\* fails and g_mutex_abort() ends the process
ImplKeyCreate(t) ==
  /\ ~gaborted
  /\ gpc[t] = "create"
  /\ IF keys = KeyValues
     THEN gaborted' = TRUE /\ UNCHANGED <<keys, tsd, gimpl, gpc>>
     ELSE /\ \E k \in KeyValues \ keys :
               /\ gimpl' = [gimpl EXCEPT ![t] = k]
               /\ keys' = keys \cup {k}
               /\ tsd' = [tsd EXCEPT ![k] = [u \in PrivThreads |-> "NULL"]]
          /\ GGoto(t, "exchange")
          /\ gaborted' = gaborted
  /\ UNCHANGED <<key_p, gcall, gret, gstored>>
  /\ UNCHANGED <<kvars, svars, mvars, pvars, dvars, rvars, uvars>>

\* line 326: g_atomic_pointer_compare_and_exchange (&key->p, NULL, (gsize) impl)
ImplExchange(t) ==
  /\ ~gaborted
  /\ gpc[t] = "exchange"
  /\ IF key_p = 0
     THEN key_p' = gimpl[t] /\ GGoto(t, "use")
     ELSE key_p' = key_p /\ GGoto(t, "delete")
  /\ UNCHANGED <<keys, tsd, gimpl, gcall, gret, gstored, gaborted>>
  /\ UNCHANGED <<kvars, svars, mvars, pvars, dvars, rvars, uvars>>

\* line 328: pthread_key_delete (impl)
ImplKeyDelete(t) ==
  /\ ~gaborted
  /\ gpc[t] = "delete"
  /\ keys' = keys \ {gimpl[t]}
  /\ tsd' = [tsd EXCEPT ![gimpl[t]] = [u \in PrivThreads |-> "NULL"]]
  /\ GGoto(t, "reread")
  /\ UNCHANGED <<key_p, gimpl, gcall, gret, gstored, gaborted>>
  /\ UNCHANGED <<kvars, svars, mvars, pvars, dvars, rvars, uvars>>

\* line 329: impl = (gsize) key->p
ImplReread(t) ==
  /\ ~gaborted
  /\ gpc[t] = "reread"
  /\ gimpl' = [gimpl EXCEPT ![t] = key_p]
  /\ GGoto(t, "use")
  /\ UNCHANGED <<key_p, keys, tsd, gcall, gret, gstored, gaborted>>
  /\ UNCHANGED <<kvars, svars, mvars, pvars, dvars, rvars, uvars>>

g_private_get_impl(t) ==
  \/ ImplRead(t)
  \/ ImplKeyCreate(t)
  \/ ImplExchange(t)
  \/ ImplKeyDelete(t)
  \/ ImplReread(t)

\* line 340: return pthread_getspecific (impl); NULL for a key that is not
\* in use
g_private_get(t) ==
  /\ ~gaborted
  /\ gpc[t] = "use"
  /\ gcall[t].op = "get"
  /\ gret' = [gret EXCEPT ![t] = IF gimpl[t] \in keys THEN tsd[gimpl[t]][t]
                                  ELSE "NULL"]
  /\ GGoto(t, "idle")
  /\ UNCHANGED <<key_p, keys, tsd, gimpl, gcall, gstored, gaborted>>
  /\ UNCHANGED <<kvars, svars, mvars, pvars, dvars, rvars, uvars>>

\* lines 349-350: pthread_setspecific (impl, value); EINVAL for a key that is
\* not in use, and g_mutex_abort() ends the process
g_private_set(t) ==
  /\ ~gaborted
  /\ gpc[t] = "use"
  /\ gcall[t].op = "set"
  /\ IF gimpl[t] \in keys
     THEN /\ tsd' = [tsd EXCEPT ![gimpl[t]][t] = gcall[t].value]
          /\ gstored' = [gstored EXCEPT ![t] = gcall[t].value]
          /\ GGoto(t, "idle")
          /\ gaborted' = gaborted
     ELSE gaborted' = TRUE /\ UNCHANGED <<tsd, gstored, gpc>>
  /\ UNCHANGED <<key_p, keys, gimpl, gcall, gret>>
  /\ UNCHANGED <<kvars, svars, mvars, pvars, dvars, rvars, uvars>>

\* ================================================== the item walk, step by step
MaxIters == 3

\* guint64 arithmetic: l + k for a small k
U64AddSmall(u, k) ==
  LET d == u[4] + k
      c == u[3] + (d \div Limb)
      b == u[2] + (c \div Limb)
      a == u[1] + (b \div Limb)
  IN  <<a % Limb, b % Limb, c % Limb, d % Limb>>

\* line 69: KDBUS_ALIGN8(l) is (((l) + 7) & ~7) on the guint64 size
KDBUS_ALIGN8_U64(u) ==
  LET s == U64AddSmall(u, 7) IN <<s[1], s[2], s[3], s[4] - (s[4] % 8)>>

\* lines 70-71: ((guint8 *) part) + n with 64-bit pointers: the distance the
\* cursor moves, n taken modulo 2^64
PointerMove(n) ==
  IF n[1] >= Limb \div 2
  THEN 0 - (U64Neg(n)[3] * Limb + U64Neg(n)[4])
  ELSE n[3] * Limb + n[4]

\* the size fields the walk can find: a header alone, an item of 24 bytes and
\* two sizes next to 2^64
WalkItemSizes ==
  {U64(KDBUS_PART_HEADER_SIZE), U64(KDBUS_PART_HEADER_SIZE + 8), U64Max,
   <<Limb - 1, Limb - 1, Limb - 1, Limb - 9>>}

\* the positions the model keeps a size field for, and the ends of a message
WalkPositions == {0 - 8, 0, 8, 16, 24}
WalkEnds == {24, 32}

WalkInit ==
  /\ wmem = [p \in WalkPositions |-> U64(KDBUS_PART_HEADER_SIZE)]
  /\ wsize = 0
  /\ cursor = 0
  /\ wstate = "done"
  /\ witers = 0


\* a message given to g_kdbus_decode_msg(): item = msg->items
WalkInputs ==
  /\ wmem \in [WalkPositions -> WalkItemSizes]
  /\ wsize \in WalkEnds
  /\ cursor = 0
  /\ wstate = "walking"
  /\ witers = 0

\* lines 57-60, 415-421: one iteration of KDBUS_PART_FOREACH. The loop ends
\* when the cursor is at or past the end; an item no larger than its header
\* ends in g_error(); otherwise the cursor moves by KDBUS_ALIGN8(item->size).
\* A cursor outside the positions kept here reads memory that is not part of
\* the message.
WalkIteration ==
  /\ wstate = "walking"
  /\ witers < MaxIters
  /\ witers' = witers + 1
  /\ IF ~(cursor < wsize)
     THEN wstate' = "done" /\ cursor' = cursor
     ELSE IF cursor \notin WalkPositions
     THEN wstate' = "strayed" /\ cursor' = cursor
     ELSE IF wmem[cursor][1] = 0 /\ wmem[cursor][2] = 0 /\ wmem[cursor][3] = 0
             /\ wmem[cursor][4] <= KDBUS_PART_HEADER_SIZE
     THEN wstate' = "g_error" /\ cursor' = cursor
     ELSE /\ wstate' = "walking"
          /\ cursor' = cursor + PointerMove(KDBUS_ALIGN8_U64(wmem[cursor]))
  /\ UNCHANGED <<wmem, wsize>>
  /\ UNCHANGED <<basevars, fvars, bvars, ovars>>

\* ======================================= GProperty, set_value and get_value
MaxCalls == 3
MaxValue == 2

\* the values a caller passes: integers, or the contents of strings, or the
\* addresses of boxed values
PropValues == 0 .. MaxValue

\* the offsets of the fields of the instance's private structure
PrivOffsets == {0, 8}

PropKinds == {"integer", "string", "boxed"}
PropFlags == {"READABLE", "WRITABLE", "COPY_SET"}
\* the setter functions a class can give: none, one that stores the value and
\* returns TRUE when it differs (test_object_set_enum_val), one that always
\* stores and returns TRUE
PropSetters == {"NULL", "on_change", "always"}
PropGetters == {"NULL", "func"}

NoProperty ==
  [kind |-> "none", flags |-> {}, field_offset |-> 0, setter |-> "NULL",
   getter |-> "NULL", min_value |-> 0, max_value |-> 0]

NoPropCall ==
  [op |-> "none", value |-> 0, retval |-> 0, notified |-> 0, stored |-> FALSE,
   message |-> "none", outside |-> FALSE, old |-> 0, setter_ret |-> "none"]

ValueInit ==
  /\ gprop = NoProperty
  /\ priv = [o \in PrivOffsets |-> 0]
  /\ fcall = NoPropCall
  /\ fcalls = 0

\* line 348: guint16 field_offset
ToGuint16(n) == n % Limb

\* lines 388-410: g_property_create(); the gssize offset is assigned to the
\* guint16 field
g_property_create(kind, flags, field_offset) ==
  [kind |-> kind, flags |-> flags, field_offset |-> ToGuint16(field_offset),
   setter |-> "NULL", getter |-> "NULL", min_value |-> 0,
   max_value |-> MaxValue]

\* lines 497-520, 2090-2113, 2308-2331: g_<type>_property_new(). The integer
\* types refuse an offset below zero when there is neither setter nor getter.
g_property_new(kind, flags, offset, setter, getter) ==
  /\ gprop.kind = "none"
  /\ IF kind = "integer" /\ setter = "NULL" /\ getter = "NULL" /\ ~(offset >= 0)
     THEN /\ gprop' = gprop
          /\ fcall' = [NoPropCall EXCEPT !.op = "new", !.message = "offset >= 0"]
     ELSE /\ gprop' = [g_property_create(kind, flags, offset)
                         EXCEPT !.setter = setter, !.getter = getter]
          /\ fcall' = [NoPropCall EXCEPT !.op = "new"]
  /\ UNCHANGED <<priv, fcalls>>
  /\ UNCHANGED <<basevars, wvars, bvars, ovars>>

\* lines 522-536: g_<type>_property_set_range()
g_property_set_range(min_value, max_value) ==
  /\ gprop.kind = "integer"
  /\ fcalls < MaxCalls
  /\ fcalls' = fcalls + 1
  /\ IF min_value > max_value
     THEN /\ gprop' = gprop
          /\ fcall' = [NoPropCall EXCEPT !.op = "set_range",
                                         !.message = "Invalid range"]
     ELSE /\ gprop' = [gprop EXCEPT !.min_value = min_value,
                                    !.max_value = max_value]
          /\ fcall' = [NoPropCall EXCEPT !.op = "set_range"]
  /\ UNCHANGED priv
  /\ UNCHANGED <<basevars, wvars, bvars, ovars>>

\* lines 547-559, 2115-2120, 2333-2338: g_<type>_property_validate()
g_property_validate(value) ==
  IF gprop.kind = "integer"
  THEN value >= gprop.min_value /\ value <= gprop.max_value
  ELSE TRUE

\* the values a read of the private structure at an offset can give: the
\* field's value, or anything when the offset is not inside the structure
FieldRead(off) == IF off \in PrivOffsets THEN {priv[off]} ELSE PropValues

\* a write at an offset: the field takes the value, or memory outside of the
\* private structure is written
FieldWrite(off, value) ==
  IF off \in PrivOffsets THEN [priv EXCEPT ![off] = value] ELSE priv

\* the class's setter function; it keeps the value in its own field
SetterReturns(value) ==
  IF gprop.setter = "always" THEN TRUE ELSE priv[0] # value

\* lines 611-615: (*field_p) == value, lines 2167-2173: g_strcmp0 (str, value)
\* == 0; the boxed setter (2373-2403) makes no such test
SameAsStoredNever(old, value) == FALSE

SameAsStored(old, value) == gprop.kind # "boxed" /\ old = value

\* lines 568-635, 2123-2195, 2339-2410: g_<type>_property_set_value()
g_property_set_value(value) ==
  /\ gprop.kind # "none"
  /\ fcalls < MaxCalls
  /\ fcalls' = fcalls + 1
  /\ UNCHANGED gprop
  /\ UNCHANGED <<basevars, wvars, bvars, ovars>>
  /\ LET call == [NoPropCall EXCEPT !.op = "set", !.value = value]
     IN
     IF "WRITABLE" \notin gprop.flags
     THEN /\ fcall' = [call EXCEPT !.message = "not writable"]
          /\ UNCHANGED priv
     ELSE IF ~g_property_validate(value)
     THEN /\ fcall' = [call EXCEPT !.message = "out of the valid range"]
          /\ UNCHANGED priv
     ELSE IF gprop.setter # "NULL"
     THEN LET retval == SetterReturns(value)
          IN  /\ priv' = IF retval THEN [priv EXCEPT ![0] = value] ELSE priv
              /\ fcall' = [call EXCEPT !.old = priv[0],
                                       !.setter_ret = retval,
                                       !.stored = retval,
                                       !.notified = IF retval THEN 1 ELSE 0,
                                       !.retval = IF retval THEN 1 ELSE 0]
     ELSE IF gprop.field_offset >= 0
     THEN \E old \in FieldRead(gprop.field_offset) :
            IF SameAsStored(old, value)
            THEN /\ fcall' = [call EXCEPT
                                !.old = old,
                                !.outside = gprop.field_offset \notin PrivOffsets]
                 /\ UNCHANGED priv
            ELSE /\ priv' = FieldWrite(gprop.field_offset, value)
                 /\ fcall' = [call EXCEPT
                                !.old = old,
                                !.stored = TRUE,
                                !.notified = 1,
                                !.retval = 1,
                                !.outside = gprop.field_offset \notin PrivOffsets]
     ELSE /\ fcall' = [call EXCEPT !.message = "No setter function or field offset"]
          /\ UNCHANGED priv

\* lines 637-669, 2197-2232, 2412-2447: g_<type>_property_get_value()
g_property_get_value ==
  /\ gprop.kind # "none"
  /\ fcalls < MaxCalls
  /\ fcalls' = fcalls + 1
  /\ UNCHANGED <<gprop, priv>>
  /\ UNCHANGED <<basevars, wvars, bvars, ovars>>
  /\ LET call == [NoPropCall EXCEPT !.op = "get"]
     IN
     IF "READABLE" \notin gprop.flags
     THEN fcall' = [call EXCEPT !.message = "not readable"]
     ELSE IF gprop.getter # "NULL"
     THEN fcall' = [call EXCEPT !.retval = priv[0]]
     ELSE IF gprop.field_offset >= 0
     THEN \E v \in FieldRead(gprop.field_offset) :
            fcall' = [call EXCEPT
                        !.retval = v,
                        !.outside = gprop.field_offset \notin PrivOffsets]
     ELSE fcall' = [call EXCEPT !.message = "No getter function or field offset"]

\* the offsets a class passes to g_<type>_property_new(): a field of its
\* private structure, or -1
NewOffsets == PrivOffsets \cup {0 - 1}

NextValue ==
  \/ \E kind \in PropKinds, flags \in SUBSET PropFlags, offset \in NewOffsets,
        setter \in PropSetters, getter \in PropGetters :
       g_property_new(kind, flags, offset, setter, getter)
  \/ \E min_value \in PropValues, max_value \in PropValues :
       g_property_set_range(min_value, max_value)
  \/ \E value \in PropValues : g_property_set_value(value)
  \/ g_property_get_value

\* ============================================================== GSubprocess
\* the descriptors a caller passes to the unix_fd setters
SubFds == {NoFd, 3, 4}

\* lines 118-131: g_subprocess_init(); g_object_new() has zeroed the rest
g_subprocess_init ==
  [state |-> "BUILDING",
   stdin_to_devnull |-> TRUE, stdout_to_devnull |-> FALSE,
   stderr_to_devnull |-> FALSE, stderr_to_stdout |-> FALSE,
   stdin_fd |-> NoFd, internal_stdin_fd |-> NoFd,
   stdin_path |-> "NULL", stdin_stream |-> "NULL",
   stdout_fd |-> NoFd, stderr_fd |-> NoFd]

NoSubCall ==
  [op |-> "none", stream |-> "none", choice |-> "none", result |-> "none"]

SubprocessInit ==
  /\ sub = g_subprocess_init
  /\ slast = NoSubCall

Asserted(result) ==
  result \in {"assertion stdin", "assertion stdout", "assertion stderr"}

\* g_assert() ends the process: nothing runs after a failed assertion
SubAlive == ~Asserted(slast.result)

\* lines 775-778 (and 808-811, 847-850, 896-899): what every standard input
\* setter does before it stores its own choice
ClearStdinKeepsStream(s) ==
  [s EXCEPT !.stdin_path = "NULL", !.stdin_to_devnull = FALSE, !.stdin_fd = NoFd]

ClearStdin(s) ==
  [s EXCEPT !.stdin_stream = "NULL", !.stdin_path = "NULL",
            !.stdin_to_devnull = FALSE, !.stdin_fd = NoFd]

\* lines 994-995, 1025-1026: the same for the standard output
ClearStdout(s) == [s EXCEPT !.stdout_to_devnull = FALSE, !.stdout_fd = NoFd]

\* lines 1057-1059, 1093-1095, 1125-1127: the same for the standard error
ClearStderr(s) ==
  [s EXCEPT !.stderr_to_devnull = FALSE, !.stderr_to_stdout = FALSE,
            !.stderr_fd = NoFd]

\* a setter: g_return_if_fail (self->state == G_SUBPROCESS_STATE_BUILDING),
\* then the new configuration
Setter(op, stream, choice, new) ==
  /\ SubAlive
  /\ IF sub.state = "BUILDING"
     THEN /\ sub' = new
          /\ slast' = [op |-> op, stream |-> stream, choice |-> choice,
                       result |-> "set"]
     ELSE /\ sub' = sub
          /\ slast' = [op |-> op, stream |-> stream, choice |-> "none",
                       result |-> "precondition"]
  /\ UNCHANGED ovars
  /\ UNCHANGED <<basevars, wvars, fvars>>

\* lines 767-781
g_subprocess_set_standard_input_file_path ==
  Setter("set_standard_input_file_path", "stdin", "path",
         [ClearStdin(sub) EXCEPT !.stdin_path = "path"])

\* lines 801-814
g_subprocess_set_standard_input_unix_fd(fd_arg) ==
  Setter("set_standard_input_unix_fd", "stdin",
         IF fd_arg = NoFd THEN "none" ELSE "fd",
         [ClearStdin(sub) EXCEPT !.stdin_fd = fd_arg])

\* lines 840-853
g_subprocess_set_standard_input_to_devnull(to_devnull) ==
  Setter("set_standard_input_to_devnull", "stdin",
         IF to_devnull THEN "devnull" ELSE "none",
         [ClearStdin(sub) EXCEPT !.stdin_to_devnull = to_devnull])

\* lines 888-902; g_subprocess_set_standard_input_bytes() (922-935) and
\* g_subprocess_set_standard_input_str() (954-967) wrap their argument in a
\* stream and call it
g_subprocess_set_standard_input_stream ==
  Setter("set_standard_input_stream", "stdin", "stream",
         [ClearStdin(sub) EXCEPT !.stdin_stream = "stream"])

\* lines 987-998
g_subprocess_set_standard_output_to_devnull(to_devnull) ==
  Setter("set_standard_output_to_devnull", "stdout",
         IF to_devnull THEN "devnull" ELSE "none",
         [ClearStdout(sub) EXCEPT !.stdout_to_devnull = to_devnull])

\* lines 1018-1029
g_subprocess_set_standard_output_unix_fd(fd_arg) ==
  Setter("set_standard_output_unix_fd", "stdout",
         IF fd_arg = NoFd THEN "none" ELSE "fd",
         [ClearStdout(sub) EXCEPT !.stdout_fd = fd_arg])

\* lines 1050-1062
g_subprocess_set_standard_error_to_devnull(to_devnull) ==
  Setter("set_standard_error_to_devnull", "stderr",
         IF to_devnull THEN "devnull" ELSE "none",
         [ClearStderr(sub) EXCEPT !.stderr_to_devnull = to_devnull])

\* lines 1086-1098
g_subprocess_set_standard_error_to_stdout(to_stdout) ==
  Setter("set_standard_error_to_stdout", "stderr",
         IF to_stdout THEN "stdout" ELSE "none",
         [ClearStderr(sub) EXCEPT !.stderr_to_stdout = to_stdout])

\* lines 1118-1130
g_subprocess_set_standard_error_unix_fd(fd_arg) ==
  Setter("set_standard_error_unix_fd", "stderr",
         IF fd_arg = NoFd THEN "none" ELSE "fd",
         [ClearStderr(sub) EXCEPT !.stderr_fd = fd_arg])

NextSetters ==
  \/ g_subprocess_set_standard_input_file_path
  \/ \E fd_arg \in SubFds : g_subprocess_set_standard_input_unix_fd(fd_arg)
  \/ \E b \in BOOLEAN : g_subprocess_set_standard_input_to_devnull(b)
  \/ g_subprocess_set_standard_input_stream
  \/ \E b \in BOOLEAN : g_subprocess_set_standard_output_to_devnull(b)
  \/ \E fd_arg \in SubFds : g_subprocess_set_standard_output_unix_fd(fd_arg)
  \/ \E b \in BOOLEAN : g_subprocess_set_standard_error_to_devnull(b)
  \/ \E b \in BOOLEAN : g_subprocess_set_standard_error_to_stdout(b)
  \/ \E fd_arg \in SubFds : g_subprocess_set_standard_error_unix_fd(fd_arg)

\* ---------------------------------------------- g_subprocess_start_with_pipes
\* lines 1349-1551, the G_OS_UNIX build. The arguments say which out_*_stream
\* pointers are given, whether the cancellable is cancelled, and whether
\* g_open() and g_spawn_async_with_pipes() succeed. The value is the object
\* after the call and how the call ended.
StartWithPipes(s, out_stdin, out_stdout, out_stderr, is_cancelled, open_ok, spawn_ok) ==
  LET opened == IF s.stdin_path # "NULL"
                THEN [s EXCEPT !.internal_stdin_fd = 5, !.stdin_path = "NULL"]
                ELSE s
  IN
  IF s.state # "BUILDING"
  THEN [sub |-> s, result |-> "precondition"]
  ELSE IF is_cancelled
  THEN [sub |-> s, result |-> "cancelled"]
  ELSE IF out_stdin /\ ~(s.stdin_fd = NoFd /\ s.stdin_path = "NULL"
                         /\ s.stdin_stream = "NULL")
  THEN [sub |-> s, result |-> "precondition"]
  ELSE IF out_stdout /\ ~(s.stdout_fd = NoFd /\ ~s.stdout_to_devnull)
  THEN [sub |-> s, result |-> "precondition"]
  ELSE IF out_stderr /\ ~(s.stderr_fd = NoFd /\ ~s.stderr_to_devnull
                          /\ ~s.stderr_to_stdout)
  THEN [sub |-> s, result |-> "precondition"]
  ELSE IF s.stdin_path # "NULL" /\ ~open_ok
  THEN [sub |-> s, result |-> "open failed"]
  ELSE IF ~(out_stdin \/ opened.stdin_stream # "NULL")
          /\ ~(opened.stdin_fd # NoFd \/ opened.stdin_to_devnull)
  THEN [sub |-> opened, result |-> "assertion stdin"]
  ELSE IF ~out_stdout /\ ~(opened.stdout_fd = NoFd \/ opened.stdout_to_devnull)
  THEN [sub |-> opened, result |-> "assertion stdout"]
  ELSE IF ~out_stderr /\ ~(opened.stderr_fd = NoFd \/ opened.stderr_to_devnull
                           \/ opened.stderr_to_stdout)
  THEN [sub |-> opened, result |-> "assertion stderr"]
  ELSE IF ~spawn_ok
  THEN [sub |-> opened, result |-> "spawn failed"]
  ELSE [sub |-> [opened EXCEPT !.state = "RUNNING"], result |-> "spawned"]

g_subprocess_start_with_pipes(out_stdin, out_stdout, out_stderr, is_cancelled, open_ok, spawn_ok) ==
  /\ SubAlive
  /\ LET r == StartWithPipes(sub, out_stdin, out_stdout, out_stderr,
                             is_cancelled, open_ok, spawn_ok)
     IN  /\ sub' = r.sub
         /\ slast' = [op |-> "start_with_pipes", stream |-> "none",
                      choice |-> "none", result |-> r.result]
  /\ UNCHANGED ovars
  /\ UNCHANGED <<basevars, wvars, fvars>>

NextSubprocess ==
  \/ NextSetters
  \/ \E out_stdin \in BOOLEAN, out_stdout \in BOOLEAN, out_stderr \in BOOLEAN,
        is_cancelled \in BOOLEAN, open_ok \in BOOLEAN, spawn_ok \in BOOLEAN :
       g_subprocess_start_with_pipes(out_stdin, out_stdout, out_stderr,
                                     is_cancelled, open_ok, spawn_ok)

\* ------------------------------------ g_subprocess_run_sync_get_output_bytes
OutStreams == {"stdout", "stderr"}

NoRun ==
  [pc |-> "idle", want |-> {}, events_needed |-> 0, is_running |-> FALSE,
   caught_error |-> FALSE, ret |-> FALSE]

RunSyncInit ==
  /\ run = NoRun
  /\ splices = [s \in OutStreams |-> "none"]
  /\ child = "none"

\* lines 2130-2143, 2018-2072: the call, down to g_main_loop_run (data.loop).
\* The main loop is created running; the child is started with a pipe for
\* each requested output; a splice is started and counted for each pipe.
CallRunSyncGetOutput(want, is_cancelled, spawn_ok) ==
  /\ SubAlive
  /\ run.pc = "idle"
  /\ LET r == StartWithPipes(sub, FALSE, "stdout" \in want, "stderr" \in want,
                             is_cancelled, TRUE, spawn_ok)
     IN  /\ sub' = r.sub
         /\ slast' = [op |-> "start_with_pipes", stream |-> "none",
                      choice |-> "none", result |-> r.result]
         /\ IF r.result = "spawned"
            THEN /\ run' = [NoRun EXCEPT !.pc = "loop", !.want = want,
                                         !.events_needed = Cardinality(want),
                                         !.is_running = TRUE]
                 /\ splices' = [s \in OutStreams |->
                                  IF s \in want THEN "pending" ELSE "none"]
                 /\ child' = "running"
            ELSE /\ run' = [NoRun EXCEPT
                              !.pc = IF Asserted(r.result) THEN "aborted"
                                     ELSE "returned",
                              !.want = want, !.is_running = TRUE]
                 /\ UNCHANGED <<splices, child>>
  /\ UNCHANGED <<basevars, wvars, fvars>>

\* a splice ends: the child's stream has reached its end, or reading failed
SpliceEnds(s, how) ==
  /\ run.pc = "loop"
  /\ splices[s] = "pending"
  /\ splices' = [splices EXCEPT ![s] = how]
  /\ UNCHANGED <<run, child, bvars>>
  /\ UNCHANGED <<basevars, wvars, fvars>>

\* the child exits, with or without success
ChildExits(status) ==
  /\ child = "running"
  /\ child' = status
  /\ UNCHANGED <<run, splices, bvars>>
  /\ UNCHANGED <<basevars, wvars, fvars>>

\* lines 2000-2016: g_subprocess_on_get_output_splice_done(), dispatched by
\* the main loop of line 2072 for a splice that has ended
g_subprocess_on_get_output_splice_done(s) ==
  /\ run.pc = "loop" /\ run.is_running
  /\ splices[s] \in {"eof", "failed"}
  /\ splices' = [splices EXCEPT ![s] = "done"]
  /\ run' = [run EXCEPT
               !.caught_error = run.caught_error \/ splices[s] = "failed",
               !.events_needed = run.events_needed - 1,
               !.is_running = IF run.events_needed - 1 = 0 THEN FALSE
                              ELSE run.is_running]
  /\ UNCHANGED <<child, bvars>>
  /\ UNCHANGED <<basevars, wvars, fvars>>

\* lines 2072-2083, 1869-1897: g_main_loop_run() returns once the loop has
\* been quit; an error caught by a splice ends the call, otherwise
\* g_subprocess_wait_sync() runs a second loop that waits for the child
MainLoopReturns ==
  /\ run.pc = "loop" /\ ~run.is_running
  /\ run' = IF run.caught_error
            THEN [run EXCEPT !.pc = "returned", !.ret = FALSE]
            ELSE [run EXCEPT !.pc = "wait"]
  /\ UNCHANGED <<splices, child, bvars>>
  /\ UNCHANGED <<basevars, wvars, fvars>>

\* lines 1897-1915, 2085-2107, 2145-2164: the child watch quits the second
\* loop; the result is that of g_subprocess_query_success()
WaitSyncReturns ==
  /\ run.pc = "wait"
  /\ child \in {"exited", "failed"}
  /\ run' = [run EXCEPT !.pc = "returned", !.ret = (child = "exited")]
  /\ UNCHANGED <<splices, child, bvars>>
  /\ UNCHANGED <<basevars, wvars, fvars>>

\* the steps of the calling thread, which runs the main loops
RunProgress ==
  \/ \E s \in OutStreams : g_subprocess_on_get_output_splice_done(s)
  \/ MainLoopReturns
  \/ WaitSyncReturns

NextRunSync ==
  \/ \E want \in SUBSET OutStreams, is_cancelled \in BOOLEAN,
        spawn_ok \in BOOLEAN :
       CallRunSyncGetOutput(want, is_cancelled, spawn_ok)
  \/ \E s \in OutStreams, how \in {"eof", "failed"} : SpliceEnds(s, how)
  \/ \E status \in {"exited", "failed"} : ChildExits(status)
  \/ \E s \in OutStreams : g_subprocess_on_get_output_splice_done(s)
  \/ MainLoopReturns
  \/ WaitSyncReturns

LaterInit == WalkInit /\ ValueInit /\ SubprocessInit /\ RunSyncInit

\* ================================================================== specs
Init == g_kdbus_init /\ SourceInit /\ MutexInit /\ PropertyInit /\ DecodeInit /\ ThreadInit /\ LaterInit

\* the transport: open, register, send, receive, close
NextKdbus ==
  \/ g_kdbus_open
  \/ g_kdbus_close
  \/ g_kdbus_register
  \/ g_kdbus_receive
  \/ g_kdbus_send_message

SpecKdbus == Init /\ [][NextKdbus]_vars

Spec == SpecKdbus

\* the event source of an endpoint under a main loop
NextSource ==
  \/ g_kdbus_set_property
  \/ \E w \in OneWatch : kdbus_source_new(w)
  \/ \E w \in OneWatch : kdbus_source_prepare(w)
  \/ \E w \in OneWatch : Poll(w)
  \/ \E w \in OneWatch : kdbus_source_check(w)
  \/ \E w \in OneWatch : kdbus_source_dispatch(w)
  \/ \E w \in OneWatch : kdbus_source_finalize(w)
  \/ g_cancellable_cancel
  \/ TickSecond
  \/ TickSmall

\* the endpoint after g_kdbus_init() and a successful g_kdbus_open()
InitSource ==
  /\ fd \in FdValues
  /\ peer_id = -1
  /\ bloom_size = 0
  /\ buffer_ptr = "NULL"
  /\ closed = FALSE
  /\ registered = FALSE
  /\ timeout = 0
  /\ timed_out = FALSE
  /\ aborted = FALSE
  /\ hello = FALSE
  /\ last = Last("open", TRUE, 1, <<>>, <<>>, NoKMsg)
  /\ SourceInit /\ MutexInit /\ PropertyInit /\ DecodeInit /\ ThreadInit /\ LaterInit

SpecSource == InitSource /\ [][NextSource]_vars

\* the lifetime of an endpoint and of the watches created on it
NextLifetime ==
  \/ \E w \in Watches : kdbus_source_new(w)
  \/ \E w \in Watches : kdbus_source_prepare(w)
  \/ \E w \in Watches : Poll(w)
  \/ \E w \in Watches : kdbus_source_check(w)
  \/ \E w \in Watches : kdbus_source_dispatch(w)
  \/ \E w \in Watches : g_source_destroy(w)
  \/ \E w \in Watches : kdbus_source_finalize(w)
  \/ g_object_unref
  \/ g_cancellable_cancel

SpecLifetime == InitSource /\ [][NextLifetime]_vars

\* one watch on an endpoint whose timeout was set before the watch is made
DeadlineTimeouts == {0, 1, 2000, 4295}

InitDeadline ==
  /\ fd \in FdValues
  /\ peer_id = -1
  /\ bloom_size = 0
  /\ buffer_ptr = "NULL"
  /\ closed = FALSE
  /\ registered = FALSE
  /\ timeout \in DeadlineTimeouts
  /\ timed_out = FALSE
  /\ aborted = FALSE
  /\ hello = FALSE
  /\ last = Last("open", TRUE, 1, <<>>, <<>>, NoKMsg)
  /\ SourceInit /\ MutexInit /\ PropertyInit /\ DecodeInit /\ ThreadInit /\ LaterInit

NextDeadline ==
  \/ \E w \in OneWatch : kdbus_source_new(w)
  \/ \E w \in OneWatch : kdbus_source_prepare(w)
  \/ \E w \in OneWatch : Poll(w)
  \/ \E w \in OneWatch : kdbus_source_check(w)
  \/ \E w \in OneWatch : kdbus_source_dispatch(w)
  \/ TickSecond
  \/ TickSmall

SpecDeadline == InitDeadline /\ [][NextDeadline]_vars

\* the main loop keeps iterating and the clock keeps running
SpecSourceFair ==
  /\ SpecSource
  /\ WF_vars(TickSecond)
  /\ \A w \in OneWatch :
       /\ WF_vars(kdbus_source_prepare(w))
       /\ WF_vars(Poll(w))
       /\ WF_vars(kdbus_source_check(w))

\* threads on one GMutex
NextMutex ==
  \E t \in Threads :
    \/ CallLock(t)
    \/ g_mutex_lock(t)
    \/ g_mutex_lock_slowpath(t)
    \/ g_mutex_trylock(t)
    \/ CallUnlock(t)
    \/ g_mutex_unlock(t)
    \/ g_mutex_unlock_slowpath(t)
    \/ SpuriousWake(t)

SpecMutex == Init /\ [][NextMutex]_vars

\* a thread inside g_mutex_lock() or g_mutex_unlock() keeps running
MutexProgress(t) ==
  g_mutex_lock(t) \/ g_mutex_lock_slowpath(t) \/ g_mutex_unlock(t)
    \/ g_mutex_unlock_slowpath(t)

SpecMutexFair == SpecMutex /\ \A t \in Threads : WF_vars(MutexProgress(t))

\* threads on one GCond and its GMutex
NextCond ==
  \/ NextMutex
  \/ \E t \in Threads : g_cond_wait(t) \/ g_cond_signal(t) \/ g_cond_broadcast(t)

SpecCond == Init /\ [][NextCond]_vars

CondProgress(t) == MutexProgress(t) \/ CondWaitFutex(t) \/ CondWake(t)

SpecCondFair == SpecCond /\ \A t \in Threads : WF_vars(CondProgress(t))

\* threads locking and unlocking one atomic property of one object
InitDecode ==
  g_kdbus_init /\ SourceInit /\ MutexInit /\ PropertyInit /\ DecodeInputs
  /\ ThreadInit /\ LaterInit

NextDecode == Decode

SpecDecode == InitDecode /\ [][NextDecode]_vars

NextProperty ==
  \E t \in Threads : g_property_default_lock(t) \/ g_property_default_unlock(t)

SpecProperty == Init /\ [][NextProperty]_vars

\* the futex GRecMutex alone, in either layout of the union
InitRecMutex ==
  /\ g_kdbus_init /\ SourceInit /\ MutexInit /\ PropertyInit /\ DecodeInit
  /\ PrivateInit /\ LaterInit
  /\ layout \in Layouts
  /\ g_rec_mutex_init

NextRecMutex ==
  \/ \E t \in Threads : CallRecLock(t)
  \/ \E t \in Threads : g_rec_mutex_lock(t)
  \/ \E t \in Threads : IncLoad(t)
  \/ \E t \in Threads : IncStore(t)
  \/ \E t \in Threads : g_rec_mutex_lock_slowpath(t)
  \/ \E t \in Threads : CallRecTrylock(t)
  \/ \E t \in Threads : g_rec_mutex_trylock(t)
  \/ \E t \in Threads : CallRecUnlock(t)
  \/ \E t \in Threads : g_rec_mutex_unlock(t)

SpecRecMutex == InitRecMutex /\ [][NextRecMutex]_vars

\* the threads that use one GPrivate
NextPrivate ==
  \/ \E t \in PrivThreads : CallPrivateGet(t)
  \/ \E t \in PrivThreads : \E v \in PrivValues : CallPrivateSet(t, v)
  \/ \E t \in PrivThreads : g_private_get_impl(t)
  \/ \E t \in PrivThreads : g_private_get(t)
  \/ \E t \in PrivThreads : g_private_set(t)

SpecPrivate == Init /\ [][NextPrivate]_vars

\* the item walk alone, over every message of the bounded memory
InitWalk ==
  /\ g_kdbus_init /\ SourceInit /\ MutexInit /\ PropertyInit /\ DecodeInit
  /\ ThreadInit
  /\ WalkInputs
  /\ ValueInit /\ SubprocessInit /\ RunSyncInit

NextWalk == WalkIteration

SpecWalk == InitWalk /\ [][NextWalk]_vars

\* a property is created, then set and read
SpecValue == Init /\ [][NextValue]_vars

\* a GSubprocess under construction: the standard stream setters alone
SpecSetters == Init /\ [][NextSetters]_vars

\* the setters and g_subprocess_start_with_pipes()
SpecSubprocess == Init /\ [][NextSubprocess]_vars

\* g_subprocess_run_sync_get_output_bytes() on a new GSubprocess; the thread
\* that calls it runs the main loops, so its steps are taken when they can be
SpecRunSync == Init /\ [][NextRunSync]_vars

SpecRunSyncFair == SpecRunSync /\ WF_vars(RunProgress)

\* ============================================================= properties
\* ------------------------------------------------- the transport (SpecKdbus)
\* C1: every message a MSG_RECV of g_kdbus_receive() obtained is released by
\* exactly one successful MSG_RELEASE with the same offset by the time the
\* call is over (it has returned, or g_error() has ended it), whatever came of
\* decoding the message.
C1_ReceivedIsReleasedOnce ==
  last.op = "receive" =>
    \A i \in DOMAIN last.calls :
      (last.calls[i].cmd = "MSG_RECV" /\ last.calls[i].res = "OK") =>
        Cardinality({j \in DOMAIN last.calls :
                       /\ j > i
                       /\ last.calls[j].cmd = "MSG_RELEASE"
                       /\ last.calls[j].res = "OK"
                       /\ last.calls[j].off = last.calls[i].off}) = 1

\* C2: a kernel call (HELLO, MSG_SEND, MSG_RECV, MSG_RELEASE) that fails with
\* EINTR is issued again: no operation ends on an EINTR.
C2_EintrIsRetried ==
  \A i \in DOMAIN last.calls :
    last.calls[i].res = "EINTR" =>
      /\ i < Len(last.calls)
      /\ last.calls[i + 1].cmd = last.calls[i].cmd

\* C3: a closed endpoint has no descriptor and is not registered.
C3_ClosedHasNoFdAndIsUnregistered == closed => (fd = NoFd /\ ~registered)

\* closed after having been registered, with a later call on the closed endpoint
C3_Witness ==
  closed /\ peer_id # -1 /\ buffer_ptr = "mapped" /\ last.op = "receive"

\* C4: once an operation has ended, a registered endpoint has its pool
\* mapped; this includes the g_kdbus_register() whose HELLO succeeded and
\* whose mmap() failed.
C4_RegisteredHasPool == registered => buffer_ptr = "mapped"

\* C12: registration is lazy and comes before sending.  A send on an endpoint
\* that is not registered begins with the HELLO of g_kdbus_register(), a send
\* on a registered one issues no HELLO, and MSG_SEND is only ever issued with
\* registered set.
C12_RegisterBeforeSend ==
  [][last'.op = "send" =>
       /\ ~registered => (last'.calls # <<>> /\ last'.calls[1].cmd = "HELLO")
       /\ registered => (\A i \in DOMAIN last'.calls : last'.calls[i].cmd # "HELLO")
       /\ \A i \in DOMAIN last'.calls :
            last'.calls[i].cmd = "MSG_SEND" =>
              /\ registered'
              /\ registered \/ (i > 1 /\ last'.calls[1].res = "OK")]_vars

\* a first send: HELLO, then MSG_SEND
C12_Witness ==
  /\ last.op = "send" /\ last.returned /\ Len(last.calls) >= 2
  /\ last.calls[1].cmd = "HELLO"
  /\ last.calls[Len(last.calls)].cmd = "MSG_SEND"
  /\ registered

\* C13: peer_id is immutable once set.  After a successful register has stored
\* it, no later operation on the endpoint changes its value.
C13_PeerIdImmutable == [][peer_id # -1 => peer_id' = peer_id]_vars

\* the command buffer of the last send, when one was built
Built == last.op = "send" /\ last.kmsg # NoKMsg
IsUniqueName(dest) ==
  ~dest.null /\ CharAt(dest, 0) = ":" /\ CharAt(dest, 1) = "1" /\ CharAt(dest, 2) = "."
IsWellKnownName(dest) == ~dest.null /\ ~IsUniqueName(dest)
AddressingItems(m) ==
  {i \in DOMAIN m.items : m.items[i].type \in {"DST_NAME", "BLOOM"}}

\* C14 as stated: after the header and the payload vector, every command
\* buffer has exactly one addressing item, a name item or a bloom item, for
\* every destination.
C14_ExactlyOneAddressingItem ==
  Built =>
    /\ Len(last.kmsg.items) = 2
    /\ last.kmsg.items[1].type = "PAYLOAD_VEC"
    /\ last.kmsg.items[2].type \in {"DST_NAME", "BLOOM"}

\* C14 as the code has it: the payload vector comes first and at most one
\* addressing item follows it.  A well-known name gets a name item and the
\* destination id 0; a buffer whose destination id is the broadcast id gets a
\* bloom item; a buffer addressed to any other id gets no addressing item.
C14_AtMostOneAddressingItem ==
  Built =>
    LET m == last.kmsg IN
    /\ m.items[1].type = "PAYLOAD_VEC"
    /\ AddressingItems(m) \subseteq {2}
    /\ Len(m.items) = 1 + Cardinality(AddressingItems(m))
    /\ IF IsWellKnownName(m.destination)
       THEN /\ Len(m.items) = 2 /\ m.items[2].type = "DST_NAME"
            /\ m.dst_id = KDBUS_DST_ID_WELL_KNOWN_NAME
       ELSE IF m.dst_id = KDBUS_DST_ID_BROADCAST
       THEN Len(m.items) = 2 /\ m.items[2].type = "BLOOM"
       ELSE Len(m.items) = 1

\* a message sent to :1.7 carries the payload vector only
C14_Witness ==
  /\ Built /\ last.returned
  /\ last.kmsg.destination = Str(<<":", "1", ".", "7">>)
  /\ Len(last.kmsg.items) = 1
  /\ last.kmsg.dst_id = U64(7)

\* x divided by 10 on unsigned 64-bit limbs
U64DivMod10(x) ==
  LET c1 == x[1]
      c2 == (c1 % 10) * Limb + x[2]
      c3 == (c2 % 10) * Limb + x[3]
      c4 == (c3 % 10) * Limb + x[4]
  IN  [q |-> <<c1 \div 10, c2 \div 10, c3 \div 10, c4 \div 10>>, r |-> c4 % 10]

\* the decimal digits of an unsigned 64-bit number
RECURSIVE U64Digits(_)
U64Digits(x) ==
  IF x = U64(0) THEN <<>>
  ELSE U64Digits(U64DivMod10(x).q) \o <<DigitChars[U64DivMod10(x).r + 1]>>

RECURSIVE StripZeros(_)
StripZeros(ds) == IF ds # <<>> /\ Head(ds) = "0" THEN StripZeros(Tail(ds)) ELSE ds

\* a name of the form ":1." followed by digits, and the digits of its number
IsNumberedName(dest) ==
  /\ IsUniqueName(dest) /\ strlen(dest) > 3
  /\ \A i \in 3..(strlen(dest) - 1) : IsDigit(CharAt(dest, i))
NumberDigits(dest) == StripZeros(SubSeq(dest.s, 4, Len(dest.s)))

\* C15: for every destination ":1." followed by digits N the message is
\* addressed directly: the destination id of the header is N, neither a name
\* item nor a bloom item is attached, and the size is that of the header and
\* the payload vector item.
C15_UniqueNameIsAddressedDirectly ==
  (Built /\ IsNumberedName(last.kmsg.destination)) =>
    LET m == last.kmsg IN
    /\ U64Digits(m.dst_id) = NumberDigits(m.destination)
    /\ AddressingItems(m) = {}
    /\ Len(m.items) = 1 /\ m.items[1].type = "PAYLOAD_VEC"
    /\ m.size = KDBUS_MSG_HEADER_SIZE + KDBUS_ALIGN8(m.items[1].size)

\* the end of the walk of KDBUS_PART_FOREACH over the items of a buffer
WalkEnd(m) == KDBUS_MSG_HEADER_SIZE + SumAligned(m.items)

\* C16: the declared size of every command buffer is the header size plus the
\* sum of the aligned sizes of its items, each item lies at the aligned end of
\* the one before, and the walk over the items ends at the declared end.
C16_SizeIsAlignedSum ==
  Built =>
    LET m == last.kmsg IN
    /\ m.size = WalkEnd(m)
    /\ \A i \in DOMAIN m.items :
         m.items[i].pos = KDBUS_MSG_HEADER_SIZE + SumAligned(SubSeq(m.items, 1, i - 1))

\* the last call was a receive whose MSG_RECV ended with EAGAIN
WouldBlock ==
  /\ last.op = "receive" /\ last.calls # <<>>
  /\ last.calls[Len(last.calls)].cmd = "MSG_RECV"
  /\ last.calls[Len(last.calls)].res = "EAGAIN"
\* the values g_kdbus_receive() returns for a received message
ReceivedResults ==
  {g_kdbus_decode_msg(m).ret_size : m \in {x \in PoolMsgs : ~g_kdbus_decode_msg(x).fatal}}

\* C21: when MSG_RECV fails with EAGAIN, receive issues no MSG_RELEASE, copies
\* nothing from the pool, leaves the fields of the endpoint as they were, and
\* returns a result that is neither the failure result nor the result of any
\* received message.
C21_WouldBlockIsDistinct ==
  [][WouldBlock' =>
       /\ \A i \in DOMAIN last'.calls : last'.calls[i].cmd = "MSG_RECV"
       /\ last'.out = <<>>
       /\ UNCHANGED <<fd, closed, registered, peer_id, bloom_size, buffer_ptr,
                      timeout, timed_out>>
       /\ last'.returned /\ last'.ret # -1
       /\ last'.ret \notin ReceivedResults]_vars

\* the last call was a receive whose MSG_RELEASE ended with an error
ReleaseFailed ==
  /\ last.op = "receive" /\ last.calls # <<>>
  /\ last.calls[Len(last.calls)].cmd = "MSG_RELEASE"
  /\ last.calls[Len(last.calls)].res \notin {"OK", "EINTR"}

\* C22: when MSG_RELEASE fails after the message was decoded, receive still
\* hands the caller the decode result, the number of payload bytes copied into
\* its buffer.
C22_ReleaseFailureKeepsResult ==
  ReleaseFailed => (last.returned /\ last.ret = Len(last.out))

\* C23: the endpoint is never closed automatically.  Only close (and the
\* finalisation of the object, which calls it) sets closed or makes the
\* descriptor invalid; register, send and receive, failed or not and with or
\* without a malformed item, leave closed and the descriptor as they were.
C23_NeverClosedAutomatically ==
  [][/\ (closed' /\ ~closed) => last'.op = "close"
     /\ (fd # NoFd /\ fd' = NoFd) => last'.op = "close"
     /\ last'.op \in {"register", "send", "receive"} => UNCHANGED <<fd, closed>>]_vars

\* C24: close is idempotent.  A close of an endpoint that is already closed
\* returns success and leaves every field as the first close left it: closed
\* set, no descriptor, not registered.
C24_CloseIsIdempotent ==
  [][(closed /\ last' # last /\ last'.op = "close") =>
       /\ last'.returned /\ last'.ret = 1
       /\ closed' /\ fd' = NoFd /\ ~registered'
       /\ UNCHANGED <<fd, closed, registered, peer_id, bloom_size, buffer_ptr,
                      timeout, timed_out, aborted>>]_vars

\* an endpoint that was opened, registered and closed has been closed again
C24_Witness ==
  /\ closed /\ peer_id # -1 /\ ~aborted
  /\ last.op = "close" /\ last.returned /\ last.calls[1].res = "EBADF"

\* C25: when HELLO fails, register returns to its caller, with a failure, and
\* registered, peer_id, bloom_size and the pool pointer are as before the call.
C25_FailedRegisterChangesNothing ==
  [][(last'.op = "register" /\ last'.calls[1].res # "OK") =>
       /\ last'.returned /\ last'.ret = 0
       /\ UNCHANGED <<registered, peer_id, bloom_size, buffer_ptr>>]_vars

\* C26: after every successful open, also one that follows a register and a
\* close of the same endpoint, closed is unset, the descriptor is valid and
\* registered, peer_id, bloom_size, the pool pointer and timed_out have the
\* values g_kdbus_init gives them.
C26_OpenGivesDefaults ==
  (last.op = "open" /\ last.returned) =>
    /\ ~closed /\ fd # NoFd
    /\ ~registered /\ peer_id = -1 /\ bloom_size = 0 /\ buffer_ptr = "NULL"
    /\ ~timed_out

\* the last call was a register, or a send that registered, whose HELLO
\* succeeded and whose pool was mapped
Registered ==
  /\ last.op \in {"register", "send"} /\ last.calls # <<>>
  /\ last.calls[1].cmd = "HELLO" /\ last.calls[1].res = "OK"
  /\ buffer_ptr = "mapped"
\* the value of the stored peer_id is the unsigned 64-bit number id
StoredIs(id) ==
  /\ id[1] = 0 /\ id[2] = 0 /\ id[3] < Limb \div 2
  /\ peer_id = id[3] * Limb + id[4]

\* C27: after a successful register the stored peer_id is the 64-bit id the
\* kernel reported, whatever that id is, and the source field of a message
\* sent afterwards is that id.
C27_PeerIdIsKernelId ==
  /\ Registered =>
       /\ StoredIs(last.calls[1].id)
       /\ Built => last.kmsg.src_id = last.calls[1].id
  /\ (Built /\ registered) => StoredIs(last.kmsg.src_id)

\* the kernel control calls of the transport
ControlCommands == {"HELLO", "MSG_SEND", "MSG_RECV", "MSG_RELEASE"}

\* C36: no HELLO, MSG_SEND, MSG_RECV or MSG_RELEASE is issued on the invalid
\* descriptor: register, send and receive on an endpoint that was never
\* opened or has been closed make no kernel call.
C36_NoControlCallOnInvalidDescriptor ==
  \A i \in DOMAIN last.calls :
    last.calls[i].cmd \in ControlCommands => last.calls[i].fd # NoFd

\* C37: an endpoint without a descriptor is closed, so a connection that was
\* never opened, whose open failed or that has been closed is never reported
\* as connected.
C37_InvalidDescriptorIsClosed ==
  /\ fd = NoFd => g_kdbus_is_closed
  /\ g_kdbus_connection_is_connected => fd # NoFd

\* ------------------------------------------------- the decoder (SpecDecode)
Decoded == decoded # NotDecoded
ValidItems(m) == \A i \in DOMAIN m.items : m.items[i].size > KDBUS_PART_HEADER_SIZE
\* the index of the first item with an invalid size, or 0
FirstMalformed(m) ==
  IF ValidItems(m) THEN 0
  ELSE CHOOSE i \in DOMAIN m.items :
         /\ m.items[i].size <= KDBUS_PART_HEADER_SIZE
         /\ \A j \in 1..(i - 1) : m.items[j].size > KDBUS_PART_HEADER_SIZE

\* the pool bytes named by the payload items of a sequence of items, in order
RECURSIVE PayloadBytes(_)
PayloadBytes(items) ==
  IF items = <<>> THEN <<>>
  ELSE (IF Head(items).type = "PAYLOAD_OFF"
        THEN [k \in 1..Head(items).vsize |-> Head(items).voff + k - 1]
        ELSE <<>>) \o PayloadBytes(Tail(items))

\* what the caller of the decoder is told next to the bytes
NoticesToCaller ==
  IF decoded.outcome = "returned"
  THEN {decoded.notices[i] : i \in DOMAIN decoded.notices}
  ELSE {}

\* C17: for a message whose items all have a valid size the decoder copies
\* the bytes of the payload items, in item order, one after the other into the
\* output, returns the sum of their lengths, and walks over every item: items
\* of other types add no bytes and do not stop it.
C17_PayloadIsCopiedInOrder ==
  (Decoded /\ ValidItems(pool_msg)) =>
    /\ decoded.outcome = "returned"
    /\ decoded.out = PayloadBytes(pool_msg.items)
    /\ decoded.ret_size = Len(PayloadBytes(pool_msg.items))
    /\ decoded.last_item = Len(pool_msg.items)

\* C18: an item whose size is at most the item header size makes the decoder
\* stop there and report MalformedItem to its caller, nothing after it being
\* processed; an item one byte larger is accepted and walked over.
C18_MalformedItemIsReported ==
  Decoded =>
    LET m == pool_msg
        f == FirstMalformed(m) IN
    /\ f # 0 =>
         /\ decoded.last_item = f
         /\ decoded.out = PayloadBytes(SubSeq(m.items, 1, f - 1))
         /\ [kind |-> "MalformedItem"] \in NoticesToCaller
    /\ \A i \in DOMAIN m.items :
         (m.items[i].size = KDBUS_PART_HEADER_SIZE + 1 /\ (f = 0 \/ i < f)) =>
           \/ decoded.last_item > i
           \/ decoded.last_item = i /\ i = Len(m.items) /\ decoded.outcome = "returned"

\* C19: the decoder never writes past the room of the caller's buffer; when
\* the payload lengths of a message add up to more, it reports BufferTooSmall.
C19_NoWriteBeyondCapacity ==
  Decoded =>
    /\ Len(decoded.out) <= data_size
    /\ Len(PayloadBytes(pool_msg.items)) > data_size =>
         [kind |-> "BufferTooSmall"] \in NoticesToCaller

\* C20: decoding a reply-dead notice (a reply-timeout notice) reports PeerGone
\* (NoReply) with the reply cookie of the message to the caller, and the item
\* adds no payload bytes.
C20_NoticesAreReported ==
  Decoded =>
    \A i \in 1..decoded.last_item :
      LET item == pool_msg.items[i] IN
      /\ item.type = "REPLY_DEAD" /\ item.size > KDBUS_PART_HEADER_SIZE =>
           [kind |-> "PeerGone", cookie |-> pool_msg.cookie_reply] \in NoticesToCaller
      /\ item.type = "REPLY_TIMEOUT" /\ item.size > KDBUS_PART_HEADER_SIZE =>
           [kind |-> "NoReply", cookie |-> pool_msg.cookie_reply] \in NoticesToCaller
      /\ item.type \in {"REPLY_DEAD", "REPLY_TIMEOUT"} =>
           decoded.out = PayloadBytes(SubSeq(pool_msg.items, 1, i - 1))
                         \o PayloadBytes(SubSeq(pool_msg.items, i + 1, decoded.last_item))

\* ------------------------------------------------ the futex GMutex (SpecMutex)
\* C5: at most one thread holds a GMutex at any time, through every
\* interleaving of g_mutex_lock(), g_mutex_trylock() and g_mutex_unlock().
C5_MutualExclusion == Cardinality({t \in Threads : Holds(t)}) <= 1

\* one thread holds the contended mutex while another sleeps on it
C5_Witness ==
  \E t, u \in Threads :
    pc[t] = "locked" /\ pc[u] = "slow_asleep" /\ mutex = 2

\* the threads that a wake-up or a retry is still to come for: one that is
\* about to call FUTEX_WAKE, and one that is awake inside g_mutex_lock()
MutexRunners ==
  {t \in Threads : pc[t] \in {"unlock_wake", "lock", "slow_xchg", "slow_wait"}}

\* C6: no wake-up of the GMutex is lost.  While a thread sleeps on a free
\* mutex, a thread is on its way to wake it or to take the mutex; and, the
\* threads being scheduled fairly, once a thread sleeps while the mutex is
\* being released or is free, some thread acquires the mutex.
C6_NoLostWakeup ==
  /\ []((MutexSleepers # {} /\ mutex = 0) => MutexRunners # {})
  /\ ((MutexSleepers # {} /\ (mutex = 0 \/ \E h \in Threads : pc[h] = "unlock"))
        ~> (\E x \in Threads : pc[x] = "locked"))

\* a thread sleeps in the slow path while the holder is inside g_mutex_unlock()
C6_Witness ==
  \E t, h \in Threads : pc[t] = "slow_asleep" /\ pc[h] = "unlock_wake" /\ mutex = 0

\* -------------------------------------------------- the futex GCond (SpecCond)
\* C7: a g_cond_signal() or g_cond_broadcast() issued after a waiter has
\* sampled the counter is not lost, also when it falls between the waiter's
\* unlock and its sleep: the waiters it has to unblock leave the futex wait;
\* and a waiter returns from g_cond_wait() holding the mutex, alone.
C7_SignalNotLost ==
  /\ (owed > 0) ~> (owed = 0)
  /\ [][\A t \in Threads :
          (inwait[t] /\ ~inwait'[t]) =>
            /\ pc'[t] = "locked"
            /\ \A u \in Threads \ {t} : pc'[u] # "locked"]_vars

\* a signal has been issued while a waiter that has sampled the counter and
\* released the mutex has not yet gone to sleep
C7_Witness ==
  \E t \in Threads :
    inwait[t] /\ pc[t] = "cond_wait" /\ sampled[t] # cond /\ owed > 0

\* ------------------------------------- the default property lock (SpecProperty)
\* C8: the default lock functions of a G_PROPERTY_ATOMIC property are safe
\* under concurrent g_property_lock() / g_property_unlock() on one object: at
\* most one thread is between its lock and its unlock, and no thread locks or
\* unlocks a lock word that has been freed.
C8_DefaultLockIsSafe ==
  /\ Cardinality({t \in Threads : ppc[t] \in {"locked", "bit_unlock", "clear_qdata"}}) <= 1
  /\ ~use_after_free

\* ------------------------------------------------ the event source (SpecSource)
\* the watch is armed: created, not removed, and not yet found ready
Armed(w) == source[w].state \in {"armed", "polling", "polled"}

\* the clock can still pass the point where prepare()/check() sees the
\* deadline of watch w as elapsed (a negative number of milliseconds left)
DeadlineInReach(w) ==
  now + (MaxSeconds - bigTicks) * USEC_PER_SEC >= source[w].timeout_time + 1999

\* C9: an armed watch with a timeout and no descriptor activity becomes ready
\* once its deadline has passed; timed_out is then set, and the callback is
\* given the requested IN/OUT bits although the descriptor reported nothing.
C9_TimeoutMakesReady ==
  /\ \A w \in OneWatch :
        (Armed(w) /\ source[w].timeout_time # 0 /\ DeadlineInReach(w))
          ~> (source[w].state = "ready")
  /\ [](\A w \in OneWatch :
          (source[w].state = "ready" /\ source[w].why = "timeout") =>
            (timed_out /\ now > source[w].timeout_time))
  /\ [](\A w \in OneWatch :
          (source[w].dispatched /\ source[w].cb_why = "timeout") =>
            (source[w].condition \cap {IOIn, IOOut}) \subseteq source[w].cb_condition)

\* the callback has run for a deadline: poll() reported nothing, and the
\* callback was given the requested IN
C9_Witness ==
  \E w \in OneWatch :
    /\ source[w].dispatched /\ source[w].cb_why = "timeout"
    /\ source[w].reported = {}
    /\ IOIn \in source[w].cb_condition
    /\ timed_out

\* C10: when the cancellable is already cancelled as prepare() or check()
\* runs, the watch is ready at once, whatever the descriptor reported and
\* whatever the deadline, and no timeout to block for is computed.
C10_CancelledIsReadyAtOnce ==
  [][\A w \in OneWatch :
       ( /\ source[w].state \in {"armed", "polled"}
         /\ source'[w].state # source[w].state
         /\ g_cancellable_is_cancelled(source[w].cancellable) ) =>
       ( /\ source'[w].state = "ready"
         /\ source'[w].why = "cancel"
         /\ source'[w].timeout = NoTimeout
         /\ timed_out' = timed_out )]_vars

\* ready because of the cancellation, with nothing reported by the descriptor
\* and a deadline that had passed as well
C10_Witness ==
  \E w \in OneWatch :
    /\ source[w].state = "ready" /\ source[w].why = "cancel"
    /\ source[w].revents = {}
    /\ source[w].timeout_time # 0 /\ now >= source[w].timeout_time + 1999

\* the step is a dispatch of watch w that prepare() or check() made ready for
\* another reason than its deadline
DispatchWithoutTimeout(w) ==
  /\ source[w].state = "ready" /\ source[w].why # "timeout"
  /\ source'[w].state \in {"armed", "removed"}

\* C34: the callback is given the synthetic IN/OUT condition only by a
\* dispatch that the deadline of the same watch caused; a dispatch caused by
\* the descriptor, also after an earlier timeout, gives the callback only
\* conditions the descriptor reported.
C34_SyntheticConditionOnlyOnTimeout ==
  [][\A w \in OneWatch :
       DispatchWithoutTimeout(w) =>
         source'[w].cb_condition \subseteq source[w].reported]_vars

\* the step creates watch w, or is a dispatch of watch w
DeadlineIsSet(w) ==
  \/ source[w].state = "none" /\ source'[w].state = "armed"
  \/ source[w].state = "ready" /\ source'[w].state \in {"armed", "removed"}

\* C28: at the creation of a watch and after every dispatch its deadline is
\* the monotonic time plus timeout x 1,000,000 microseconds when the timeout
\* is not 0, whatever its value; with a timeout of 0 there is no deadline and
\* the watch is never ready because of the time.
C28_DeadlineIsNowPlusTimeout ==
  /\ [][\A w \in OneWatch :
          DeadlineIsSet(w) =>
            IF timeout = 0 THEN source'[w].timeout_time = 0
            ELSE /\ source'[w].timeout_time > now
                 /\ (source'[w].timeout_time - now) % USEC_PER_SEC = 0
                 /\ (source'[w].timeout_time - now) \div USEC_PER_SEC = timeout]_vars
  /\ [](\A w \in OneWatch :
          (source[w].state = "ready" /\ source[w].why = "timeout") =>
            (timeout # 0 /\ source[w].timeout_time # 0))

\* ------------------------------------------------ watch lifetime (SpecLifetime)
\* the watches that exist: created and not yet finalised
LiveWatches == {w \in Watches : source[w].state \notin {"none", "finalized"}}

\* C11: every watch holds exactly one reference on its endpoint, and one
\* pollfd of its cancellable if it has one, from its creation until it is
\* finalised, and gives them back exactly once; so the endpoint is not
\* finalised, and its descriptor not closed by finalisation, while a watch
\* created on it exists.
C11_WatchKeepsEndpointAlive ==
  /\ ref_count = (IF owner_ref THEN 1 ELSE 0) + Cardinality(LiveWatches)
  /\ cancel_fds = Cardinality({w \in LiveWatches : source[w].cancellable # "NULL"})
  /\ finalized <=> (ref_count = 0)
  /\ (LiveWatches # {}) => (~finalized /\ fd # NoFd)

\* a watch with a cancellable still exists after the creator has dropped its
\* reference and another watch has been finalised
C11_Witness ==
  /\ ~owner_ref
  /\ \E w, x \in Watches :
       /\ source[w].state = "armed" /\ source[w].cancellable # "NULL"
       /\ source[x].state = "finalized"
  /\ ~finalized /\ ref_count = 1

\* ------------------------------------------- the futex GRecMutex (SpecRecMutex)
\* the threads that have the lock: they acquired it and have not asked for
\* as many unlocks
RecHolders == {t \in Threads : rec_held[t] >= 1}

\* C29: while a thread has locked the GRecMutex more often than it has
\* unlocked it, no other thread acquires it, by g_rec_mutex_lock or by
\* g_rec_mutex_trylock, and every further lock of that thread succeeds without
\* waiting: it does not sleep in the futex and its trylock is not refused.
C29_RecursiveLockCounts ==
  /\ Cardinality(RecHolders) <= 1
  /\ \A t \in RecHolders : rpc[t] # "asleep" /\ rret[t] # "FALSE"

\* --------------------------------------------------- GPrivate (SpecPrivate)
\* C30: what g_private_get returns in a thread is what the last g_private_set
\* of that thread stored, NULL when it stored nothing, whatever keys
\* pthread_key_create hands out; and when no call is under way the threads
\* have left one key at most in use, the one in key->p.
C30_PrivateGetReturnsLastSet ==
  /\ \A t \in PrivThreads : gret[t] # "none" => gret[t] = gstored[t]
  /\ (\A t \in PrivThreads : gpc[t] = "idle") =>
       (Cardinality(keys) <= 1 /\ (keys # {} => keys = {key_p}))

\* ---------------------------------------------------- the item walk (SpecWalk)
\* C35: every iteration of the item walk either ends the walk or moves the
\* cursor forward by 8 bytes at least, whatever 64-bit size the item declares,
\* so the walk of a message of finite size ends.
C35_WalkMovesForward ==
  [][(wstate = "walking" /\ wstate' = "walking") => cursor' >= cursor + 8]_vars

\* ------------------------------------- setting and reading values (SpecValue)
\* the last call was a set that passed the access and the range tests
SetAccepted == fcall.op = "set" /\ fcall.message = "none"

\* C31: setting a property whose value is kept in a field of the private
\* structure emits notify once and stores the value when the value differs
\* from the stored one, and emits no notify and stores nothing when it equals
\* the stored one; with a setter function notify is emitted exactly when the
\* setter returns TRUE.
C31_NotifyExactlyOnChange ==
  SetAccepted =>
    /\ (gprop.setter = "NULL" /\ gprop.field_offset \in PrivOffsets) =>
         /\ fcall.value # fcall.old =>
              /\ fcall.notified = 1
              /\ fcall.stored
              /\ priv[gprop.field_offset] = fcall.value
         /\ fcall.value = fcall.old => (fcall.notified = 0 /\ ~fcall.stored)
    /\ gprop.setter # "NULL" => (fcall.notified = 1 <=> fcall.setter_ret = TRUE)

\* C31, amended: the same for every type but boxed; a boxed property stores
\* the value and emits notify once on every set, equal or not.
C31_NotifyOnChangeUnlessBoxed ==
  SetAccepted =>
    /\ (gprop.setter = "NULL" /\ gprop.field_offset \in PrivOffsets) =>
         /\ (gprop.kind = "boxed" \/ fcall.value # fcall.old) =>
              /\ fcall.notified = 1
              /\ fcall.stored
              /\ priv[gprop.field_offset] = fcall.value
         /\ (gprop.kind # "boxed" /\ fcall.value = fcall.old) =>
              (fcall.notified = 0 /\ ~fcall.stored)
    /\ gprop.setter # "NULL" => (fcall.notified = 1 <=> fcall.setter_ret = TRUE)

\* a string property is set again to the value a set before has stored
C31_Witness ==
  /\ SetAccepted /\ gprop.setter = "NULL" /\ gprop.kind = "string"
  /\ gprop.field_offset \in PrivOffsets
  /\ fcall.value = fcall.old /\ fcall.value # 0
  /\ fcall.notified = 0

\* the property was created with the offset -1 and the last call is a set
\* without setter function or a get without getter function
NoBackingAccess ==
  /\ gprop.field_offset = ToGuint16(0 - 1)
  /\ \/ fcall.op = "set" /\ gprop.setter = "NULL"
        /\ fcall.message \notin {"not writable", "out of the valid range"}
     \/ fcall.op = "get" /\ gprop.getter = "NULL"
        /\ fcall.message # "not readable"

\* C39: a property created with the field offset -1 has no backing field:
\* setting it without setter function, or getting it without getter function,
\* fails with the "no setter/getter function or field offset" error and
\* touches no memory of the private structure or beyond.
C39_OffsetMinusOneHasNoField ==
  NoBackingAccess =>
    /\ fcall.message \in {"No setter function or field offset",
                          "No getter function or field offset"}
    /\ ~fcall.outside
    /\ ~fcall.stored

\* ----------------------------------------- the stream setters (SpecSetters)
\* what is configured for each standard stream of the child
StdinSources ==
  {c \in {"fd", "path", "stream", "devnull"} :
     \/ c = "fd" /\ sub.stdin_fd # NoFd
     \/ c = "path" /\ sub.stdin_path # "NULL"
     \/ c = "stream" /\ sub.stdin_stream # "NULL"
     \/ c = "devnull" /\ sub.stdin_to_devnull}
StdoutTargets ==
  {c \in {"fd", "devnull"} :
     \/ c = "fd" /\ sub.stdout_fd # NoFd
     \/ c = "devnull" /\ sub.stdout_to_devnull}
StderrTargets ==
  {c \in {"fd", "devnull", "stdout"} :
     \/ c = "fd" /\ sub.stderr_fd # NoFd
     \/ c = "devnull" /\ sub.stderr_to_devnull
     \/ c = "stdout" /\ sub.stderr_to_stdout}

ChosenBy(call) == IF call.choice = "none" THEN {} ELSE {call.choice}

\* C33: after any sequence of setter calls on a GSubprocess under
\* construction each standard stream has at most one source or target
\* configured, and the stream the last call was about has exactly what that
\* call chose.
C33_LastSetterWins ==
  /\ Cardinality(StdinSources) <= 1
  /\ Cardinality(StdoutTargets) <= 1
  /\ Cardinality(StderrTargets) <= 1
  /\ slast.stream = "stdin" => StdinSources = ChosenBy(slast)
  /\ slast.stream = "stdout" => StdoutTargets = ChosenBy(slast)
  /\ slast.stream = "stderr" => StderrTargets = ChosenBy(slast)

\* the last call chose a file path for the standard input, while the other
\* two streams have a target of their own
C33_Witness ==
  /\ slast.op = "set_standard_input_file_path"
  /\ StdinSources = {"path"}
  /\ StdoutTargets = {"fd"}
  /\ StderrTargets = {"stdout"}

\* ------------------------------------- starting the child (SpecSubprocess)
\* C32: for every configuration the setters can reach,
\* g_subprocess_start_with_pipes() gets to the spawn call without failing one
\* of its assertions.
C32_StartFailsNoAssertion ==
  slast.op = "start_with_pipes" => ~Asserted(slast.result)

\* -------------------------------- gathering the child's output (SpecRunSync)
\* the child has exited and no requested stream is still being read
OutputDone ==
  /\ run.pc \in {"loop", "wait"}
  /\ child \in {"exited", "failed"}
  /\ \A s \in OutStreams : splices[s] # "pending"

\* C38: g_subprocess_run_sync_get_output_bytes() returns once the child has
\* exited and every requested stream has ended, whichever outputs are
\* requested: its main loop is not left running with no splice pending.
C38_RunSyncReturns == OutputDone ~> run.pc = "returned"

====
